---- MODULE Spec2Model ----
(***************************************************************************)
(* A model of the probe-station control code:                              *)
(*   - P200L.send_command / P200L.reconnect  (src/P200L.py), the framed    *)
(*     command/response exchange over a TCP socket;                        *)
(*   - P200L.auto_raise / P200L.auto_lower, the paired device flags;       *)
(*   - Probe_Measurement.probe_wafer / probe_die                           *)
(*     (src/Probe_Measurement.py), the wafer scan;                         *)
(*   - P200L.use_pattern_recognition;                                      *)
(*   - calibrate / adjust / change_z_down, the height correction that      *)
(*     src/test.py exercises.                                              *)
(* Each part has its own specification over the shared variables.          *)
(***************************************************************************)
EXTENDS Integers, Sequences, FiniteSets, TLC

\* ------------------------------------------------------------------ bounds
\* Chunks of bytes the stage controller writes in one behaviour.
MaxResp == 3
\* send_command calls in one behaviour.
MaxCalls == 2
\* auto_raise / auto_lower calls (by the user) in one behaviour.
MaxFlagCalls == 2
\* Subsites a subsite map can hold.
MaxSubsites == 3
\* probe_die calls in one probe_wafer call.
MaxVisits == 2

\* --------------------------------------------------------------- constants
\* P200L.__init__ defaults: the endpoint every connect goes to.
ip == "192.168.0.6"
port == 9002
Endpoint == <<ip, port>>

\* The wire carries bytes.  A token stands for a run of bytes without a
\* carriage return, "CR" for the carriage return b'\r'; a frame is the
\* sequence of tokens between two carriage returns.  "xFF" is a byte that is
\* not valid UTF-8.
CR == "CR"
Bodies == {"#064", "#066", "#079", "#192", "VALUE", "xFF"}
Tokens == Bodies \cup {CR}
\* What the controller writes at once: a whole frame with its carriage
\* return, the text of a frame without it, or the carriage return alone.
Chunks == {<<b, CR>> : b \in Bodies} \cup {<<"#064">>, <<CR>>}
Commands == {"X", "Y"}

\* Python's None for response, last_response and retval.
None == <<"None">>
F064 == <<"#064">>
F066 == <<"#066">>
F079 == <<"#079">>
F192 == <<"#192">>

\* bytes.decode('utf-8'): a str (tagged, so that it differs from the bytes
\* it came from), defined only on valid UTF-8.
CanDecode(frame) == \A i \in 1..Len(frame) : frame[i] # "xFF"
Decode(frame) == <<"str">> \o frame

\* The exceptions send_command can see.
NoExc == [kind |-> "none", cmd |-> "-"]
BadCommand(m) == [kind |-> "BadCommand", cmd |-> m]
Aborted(m) == [kind |-> "Aborted", cmd |-> m]
UnicodeDecodeError == [kind |-> "UnicodeDecodeError", cmd |-> "-"]
TransportError == [kind |-> "TransportError", cmd |-> "-"]
KeyboardInterrupt == [kind |-> "KeyboardInterrupt", cmd |-> "-"]

VARIABLES
    \* --- P200L and its socket
    sock,           \* self.socket: "connected" or "unconnected"
    session,        \* which TCP session self.socket is (0 = the constructor's)
    wire,           \* bytes the controller sent on this session, not yet received
    peerClosed,     \* the controller closed its end of this session
    devActive,      \* a command reached the controller on this session
    emitted,        \* chunks the controller has written so far
    \* --- send_command's frame
    pc,             \* "idle", "loop", "except", "returned", "raised"
    message, data, response, last_response, retval,
    exc,            \* the exception being handled
    \* --- what an observer of send_command sees
    calls,          \* send_command calls so far
    parsed,         \* the frames this call has split off, in order
    sent,           \* socket.send invocations of this call: <<session, bytes>>
    delivered,      \* commands that reached the controller in this call
    connects,       \* connect attempts of this call: <<endpoint, outcome>>
    warned,         \* this call printed the cannot-reconnect warning
    result,         \* what the call gave its caller: a value or an exception
    \* --- auto_raise / auto_lower
    devFlags,       \* the controller's flag vector <<auto-raise, auto-lower>>
    stack,          \* the active calls of auto_raise / auto_lower, innermost last
    fret,           \* what the last finished outermost call gave its caller
    cur,            \* the outermost call: op, arg, the flag vector it started from
    cmdLog,         \* the commands the outermost call has issued, with outcomes
    fcalls,         \* outermost calls so far
    \* --- the controller's wafer side, and the inputs of a scan
    devDie,         \* the controller's place in the probe sequence
    devSub,         \* the controller's current subsite
    devPatRec,      \* the controller's pattern-recognition flag
    nsub,           \* the number of subsites of the loaded subsite map
    gridSubs,       \* the third dimension of self.data / self.times
    \* --- Probe_Measurement
    self_data, self_times,    \* self.data, self.times
    h5voltages, h5times, h5Open,  \* the datasets of the data file
    \* --- probe_wafer's and probe_die's frames
    scanPc,
    reset_die, use_patrec,
    start_time,     \* probe_wafer's start_time: the clock when it was called
    x_index, y_index, xyBound,    \* xyBound: x_index and y_index are assigned
    x_i, y_i, index,
    pending,        \* the exception on its way out of the try block
    \* --- what an observer of the scan sees
    clock,          \* the time, in measurements taken
    visits,         \* the dies probe_die was called on, in order
    meas,           \* voltage_in calls in the current die
    nextRet,        \* what goto_next_subsite returned in the current die
    issued,         \* the commands probe_wafer issued outside probe_die
    cancel,         \* where a KeyboardInterrupt hit the scan
    envFault,       \* a command, the lock-in or the file failed, or a
                    \* KeyboardInterrupt arrived
    scanResult,     \* how probe_wafer ended
    \* --- the height correction (calibrate, adjust, change_z_down)
    adjust,         \* self.adjust: the fitted plane, NoPlane before any fit
    z_down,         \* self.z_down: None, or the z-down last commanded
    p200_z_down,    \* the z-down of the stage (P200Offline.z_down)
    hwWrites,       \* set_z_down calls so far
    fits,           \* calibrate calls so far
    zsteps,         \* change_z_down calls so far
    lastStep,       \* the last change_z_down call: where, and what it found
    \* --- use_pattern_recognition
    patLog,         \* the use_pattern_recognition calls so far, with results
    \* --- goto_die, goto_first_die, goto_same_die, goto_next_die
    navLog          \* the calls so far, with their commands and results

sendVars == <<sock, session, wire, peerClosed, devActive, emitted, pc, message,
              data, response, last_response, retval, exc, calls, parsed, sent,
              delivered, connects, warned, result>>

flagVars == <<devFlags, stack, fret, cur, cmdLog, fcalls>>

devVars == <<devDie, devSub, devPatRec, nsub, gridSubs>>
gridVars == <<self_data, self_times, h5voltages, h5times>>
dieVars == <<x_i, y_i, index, meas, nextRet>>
xyVars == <<x_index, y_index, xyBound>>
inputVars == <<reset_die, use_patrec, start_time>>
scanVars == <<devVars, gridVars, h5Open, scanPc, inputVars, xyVars, dieVars,
              pending, clock, visits, issued, cancel, envFault, scanResult>>

calVars == <<adjust, z_down, p200_z_down, hwWrites, fits, zsteps, lastStep>>

patVars == <<patLog>>

navVars == <<navLog>>

vars == <<sendVars, flagVars, scanVars, calVars, patVars, navVars>>

\* What the steps of one part leave alone.
notSend == <<flagVars, scanVars, calVars, patVars, navVars>>
notFlags == <<sendVars, scanVars, calVars, patVars, navVars>>

\* ---------------------------------------------------------- P200L.__init__
InitSend ==
    /\ sock = "connected"
    /\ session = 0
    /\ wire = <<>>
    /\ peerClosed = FALSE
    /\ devActive = FALSE
    /\ emitted = 0
    /\ pc = "idle"
    /\ message = "-"
    /\ data = <<>>
    /\ response = None
    /\ last_response = None
    /\ retval = None
    /\ exc = NoExc
    /\ calls = 0
    /\ parsed = <<>>
    /\ sent = <<>>
    /\ delivered = <<>>
    /\ connects = <<>>
    /\ warned = FALSE
    /\ result = [kind |-> "none", value |-> None, exc |-> NoExc]

\* ------------------------------------------------------ bytes.split(b'\r', 1)
HasCR(d) == \E i \in 1..Len(d) : d[i] = CR
FirstCR(d) == CHOOSE i \in 1..Len(d) : d[i] = CR /\ \A j \in 1..(i-1) : d[j] # CR
SplitHead(d) == SubSeq(d, 1, FirstCR(d) - 1)
SplitRest(d) == SubSeq(d, FirstCR(d) + 1, Len(d))

\* ------------------------------------ send_command, lines 55-62: one frame
\* Variants of the classification with a slip in it, used to show that the
\* properties below depend on it.
\* (a) the marker itself is taken as the payload.
ClassifyMarker(resp, last, rv, m) ==
    IF resp = F066 THEN [exc |-> BadCommand(m), retval |-> rv]
    ELSE IF resp = F079 THEN [exc |-> Aborted(m), retval |-> rv]
    ELSE IF resp = F192
         THEN [exc |-> NoExc, retval |-> Decode(resp)]
         ELSE [exc |-> NoExc, retval |-> rv]

\* (b) the payload test comes first, so a frame after a marker is never
\*     classified.
ClassifyPayloadFirst(resp, last, rv, m) ==
    IF last = F192
    THEN IF CanDecode(resp)
         THEN [exc |-> NoExc, retval |-> Decode(resp)]
         ELSE [exc |-> UnicodeDecodeError, retval |-> rv]
    ELSE IF resp = F066 THEN [exc |-> BadCommand(m), retval |-> rv]
    ELSE IF resp = F079 THEN [exc |-> Aborted(m), retval |-> rv]
    ELSE [exc |-> NoExc, retval |-> rv]

\* (c) #079 is not classified.
ClassifyNoAbort(resp, last, rv, m) ==
    IF resp = F066 THEN [exc |-> BadCommand(m), retval |-> rv]
    ELSE IF last = F192
         THEN IF CanDecode(resp)
              THEN [exc |-> NoExc, retval |-> Decode(resp)]
              ELSE [exc |-> UnicodeDecodeError, retval |-> rv]
         ELSE [exc |-> NoExc, retval |-> rv]

\* (d) a frame b'#064' after a marker is not captured.
ClassifySkipsTerminal(resp, last, rv, m) ==
    IF resp = F066 THEN [exc |-> BadCommand(m), retval |-> rv]
    ELSE IF resp = F079 THEN [exc |-> Aborted(m), retval |-> rv]
    ELSE IF last = F192 /\ resp # F064
         THEN IF CanDecode(resp)
              THEN [exc |-> NoExc, retval |-> Decode(resp)]
              ELSE [exc |-> UnicodeDecodeError, retval |-> rv]
         ELSE [exc |-> NoExc, retval |-> rv]

\* (e) a frame that is no control frame is captured wherever it stands.
ClassifyAnyPayload(resp, last, rv, m) ==
    IF resp = F066 THEN [exc |-> BadCommand(m), retval |-> rv]
    ELSE IF resp = F079 THEN [exc |-> Aborted(m), retval |-> rv]
    ELSE IF last = F192 \/ resp \notin {F064, F192}
         THEN IF CanDecode(resp)
              THEN [exc |-> NoExc, retval |-> Decode(resp)]
              ELSE [exc |-> UnicodeDecodeError, retval |-> rv]
         ELSE [exc |-> NoExc, retval |-> rv]

\* The outcome of classifying `resp` when the frame before it was `last`.
Classify(resp, last, rv, m) ==
    IF resp = F066 THEN [exc |-> BadCommand(m), retval |-> rv]
    ELSE IF resp = F079 THEN [exc |-> Aborted(m), retval |-> rv]
    ELSE IF last = F192
         THEN IF CanDecode(resp)
              THEN [exc |-> NoExc, retval |-> Decode(resp)]
              ELSE [exc |-> UnicodeDecodeError, retval |-> rv]
         ELSE [exc |-> NoExc, retval |-> rv]

\* while response != b'#064'
LoopContinues(resp) == resp # F064

\* ------------------------------------------------- send_command, line 44-48
\* The call starts: socket.send(message + '\r'), then the locals are set.
\* A socket that is not connected, or whose connection broke, raises.
SendOk(m) ==
    /\ sock = "connected"
    /\ devActive' = TRUE
    /\ delivered' = <<m>>
    /\ pc' = "loop"
    /\ exc' = NoExc

SendRaises ==
    /\ UNCHANGED devActive
    /\ delivered' = <<>>
    /\ pc' = "except"
    /\ exc' = TransportError

\* A variant in which send_command is entered while an earlier call on the
\* same object has not finished, as a second thread could do.
SendWhileBusy(m) ==
    /\ UNCHANGED notSend
    /\ calls < MaxCalls
    /\ calls' = calls + 1
    /\ message' = m
    /\ sent' = <<<<session, <<m, CR>>>>>>
    /\ data' = <<>>
    /\ response' = None
    /\ last_response' = None
    /\ retval' = None
    /\ parsed' = <<>>
    /\ connects' = <<>>
    /\ warned' = FALSE
    /\ result' = [kind |-> "none", value |-> None, exc |-> NoExc]
    /\ (SendOk(m) \/ SendRaises)
    /\ UNCHANGED <<sock, session, wire, peerClosed, emitted>>

\* send_command is called from one thread only: a call starts when no
\* earlier call is running.
Send(m) ==
    /\ UNCHANGED notSend
    /\ pc \in {"idle", "returned", "raised"}
    /\ calls < MaxCalls
    /\ calls' = calls + 1
    /\ message' = m
    /\ sent' = <<<<session, <<m, CR>>>>>>
    /\ data' = <<>>
    /\ response' = None
    /\ last_response' = None
    /\ retval' = None
    /\ parsed' = <<>>
    /\ connects' = <<>>
    /\ warned' = FALSE
    /\ result' = [kind |-> "none", value |-> None, exc |-> NoExc]
    /\ (SendOk(m) \/ SendRaises)
    /\ UNCHANGED <<sock, session, wire, peerClosed, emitted>>

\* ------------------------------------------------ send_command, lines 50-52
\* data += self.socket.recv(1024) while data holds no carriage return.  recv
\* returns what has arrived, b'' once the peer has closed, or raises.
RecvBytes ==
    /\ UNCHANGED notSend
    /\ pc = "loop"
    /\ ~HasCR(data)
    /\ wire # <<>>
    /\ data' = data \o wire
    /\ wire' = <<>>
    /\ UNCHANGED <<sock, session, peerClosed, devActive, emitted, pc, message,
                   response, last_response, retval, exc, calls, parsed, sent,
                   delivered, connects, warned, result>>

RecvEof ==
    /\ UNCHANGED notSend
    /\ pc = "loop"
    /\ ~HasCR(data)
    /\ wire = <<>>
    /\ peerClosed
    /\ data' = data \o <<>>
    /\ UNCHANGED <<sock, session, wire, peerClosed, devActive, emitted, pc,
                   message, response, last_response, retval, exc, calls,
                   parsed, sent, delivered, connects, warned, result>>

RecvRaises ==
    /\ UNCHANGED notSend
    /\ pc = "loop"
    /\ ~HasCR(data)
    /\ pc' = "except"
    /\ exc' = TransportError
    /\ UNCHANGED <<sock, session, wire, peerClosed, devActive, emitted,
                   message, data, response, last_response, retval, calls,
                   parsed, sent, delivered, connects, warned, result>>

\* A variant with `except Exception:` at line 63: a KeyboardInterrupt passes
\* the handler by, and no reconnect is made.
InterruptedNotCaught ==
    /\ UNCHANGED notSend
    /\ pc = "loop"
    /\ pc' = "raised"
    /\ exc' = KeyboardInterrupt
    /\ result' = [kind |-> "raise", value |-> None, exc |-> KeyboardInterrupt]
    /\ UNCHANGED <<sock, session, wire, peerClosed, devActive, emitted,
                   message, data, response, last_response, retval, calls,
                   parsed, sent, delivered, connects, warned>>

\* A KeyboardInterrupt delivered while the call waits in the loop: the bare
\* except of line 63 catches it like any other exception.
Interrupted ==
    /\ UNCHANGED notSend
    /\ pc = "loop"
    /\ pc' = "except"
    /\ exc' = KeyboardInterrupt
    /\ UNCHANGED <<sock, session, wire, peerClosed, devActive, emitted,
                   message, data, response, last_response, retval, calls,
                   parsed, sent, delivered, connects, warned, result>>

\* ------------------------------------------------ send_command, lines 53-62
\* One frame is split off and classified; the loop condition is tested and
\* the call returns retval when the frame was b'#064'.
Parse ==
    /\ UNCHANGED notSend
    /\ pc = "loop"
    /\ HasCR(data)
    /\ LET resp == SplitHead(data)
           c == Classify(resp, response, retval, message)
       IN /\ last_response' = response
          /\ response' = resp
          /\ data' = SplitRest(data)
          /\ parsed' = Append(parsed, resp)
          /\ retval' = c.retval
          /\ exc' = c.exc
          /\ IF c.exc # NoExc
             THEN pc' = "except" /\ UNCHANGED result
             ELSE IF LoopContinues(resp)
                  THEN pc' = "loop" /\ UNCHANGED result
                  ELSE /\ pc' = "returned"
                       /\ result' = [kind |-> "return", value |-> c.retval,
                                     exc |-> NoExc]
    /\ UNCHANGED <<sock, session, wire, peerClosed, devActive, emitted,
                   message, calls, sent, delivered, connects, warned>>

\* --------------------------------------------- reconnect, lines 26-33
\* A variant that tries a second time when the first connect fails.
reconnectRetry(ok) ==
    /\ session' = session + 1
    /\ wire' = <<>>
    /\ peerClosed' = FALSE
    /\ devActive' = FALSE
    /\ sock' = IF ok THEN "connected" ELSE "unconnected"
    /\ connects' = IF ok THEN Append(connects, <<Endpoint, ok>>)
                   ELSE connects \o <<<<Endpoint, FALSE>>, <<Endpoint, FALSE>>>>

\* close, a new socket, connect((self.ip, self.port)).  The old session and
\* what was unread on it are gone either way.
reconnect(ok) ==
    /\ session' = session + 1
    /\ wire' = <<>>
    /\ peerClosed' = FALSE
    /\ devActive' = FALSE
    /\ sock' = IF ok THEN "connected" ELSE "unconnected"
    /\ connects' = Append(connects, <<Endpoint, ok>>)

\* ------------------------------------------------ send_command, lines 63-68
\* A variant in which a failure of reconnect replaces the exception raised.
ExceptHandlerMasks(ok) ==
    /\ reconnect(ok)
    /\ warned' = ~ok
    /\ result' = [kind |-> "raise", value |-> None,
                  exc |-> IF ok THEN exc ELSE TransportError]

\* try reconnect; a failure of it prints the warning; then the bare raise
\* re-raises the exception being handled.
ExceptHandler(ok) ==
    /\ reconnect(ok)
    /\ warned' = ~ok
    /\ result' = [kind |-> "raise", value |-> None, exc |-> exc]

Except ==
    /\ UNCHANGED notSend
    /\ pc = "except"
    /\ \E ok \in BOOLEAN : ExceptHandler(ok)
    /\ pc' = "raised"
    /\ UNCHANGED <<emitted, message, data, response, last_response, retval,
                   exc, calls, parsed, sent, delivered>>

\* ----------------------------------------------------- the stage controller
\* Once a command has reached it, the controller writes response bytes.
DeviceEmit ==
    /\ UNCHANGED notSend
    /\ sock = "connected"
    /\ devActive
    /\ ~peerClosed
    /\ emitted < MaxResp
    /\ \E c \in Chunks : wire' = wire \o c
    /\ emitted' = emitted + 1
    /\ UNCHANGED <<sock, session, peerClosed, devActive, pc, message, data,
                   response, last_response, retval, exc, calls, parsed, sent,
                   delivered, connects, warned, result>>

DeviceClose ==
    /\ UNCHANGED notSend
    /\ sock = "connected"
    /\ ~peerClosed
    /\ peerClosed' = TRUE
    /\ UNCHANGED <<sock, session, wire, devActive, emitted, pc, message, data,
                   response, last_response, retval, exc, calls, parsed, sent,
                   delivered, connects, warned, result>>

\* ===================================== P200L.auto_raise / P200L.auto_lower
\* Here a send_command call is one step with one of three outcomes: "ok" (the
\* controller carried the command out and its payload is returned), "fail"
\* (send_command raised and the controller did not carry the command out) and
\* "lost" (send_command raised after the controller carried it out).
Outcomes == {"ok", "fail", "lost"}

\* do_raise / do_lower: None, True or False.
ArgNone == [given |-> FALSE, val |-> FALSE]
Arg(b) == [given |-> TRUE, val |-> b]
Args == {ArgNone, Arg(TRUE), Arg(FALSE)}
Ops == {"auto_raise", "auto_lower"}

\* {True:'True',False:'False'}[b] and {'True':True,'False':False}[s]
PyStr(b) == IF b THEN "True" ELSE "False"
PyBool(s) == s = "True"

\* The controller answers ':PRB:DNM?' and ':PRB:DNM a b' with its flag vector
\* as text; retval.split(' ') gives the list of the two words.
Report(v) == <<PyStr(v[1]), PyStr(v[2])>>
\* The controller reads the two words of ':PRB:DNM a b'.
DevRead(ws) == <<PyBool(ws[1]), PyBool(ws[2])>>

AssertionError(text) == [kind |-> "AssertionError", cmd |-> text]
RaiseMsg == "auto lower should be off before auto_raise is disabled"
LowerMsg == "auto raise should be on before auto-lower is enabled"

\* Which element of auto_z_flags a method sets and returns.
Slot(op) == IF op = "auto_raise" THEN 1 ELSE 2
Other(op) == IF op = "auto_raise" THEN "auto_lower" ELSE "auto_raise"

\* Variants with a slip, used to show that the properties depend on the
\* definitions below: auto_lower without its check, and auto_lower asserting
\* the opposite.
NeedsCheckRaiseOnly(op, arg) ==
    arg.given /\ op = "auto_raise" /\ ~arg.val

AssertHoldsInverted(op, v) ==
    ~v

\* auto_raise without its check.
NeedsCheckLowerOnly(op, arg) ==
    arg.given /\ op = "auto_lower" /\ arg.val

\* lines 156 and 173: the check is made when auto_raise is being disabled
\* and when auto_lower is being enabled.
NeedsCheck(op, arg) ==
    /\ arg.given
    /\ IF op = "auto_raise" THEN ~arg.val ELSE arg.val

\* lines 157 and 174: assert not self.auto_lower() / assert self.auto_raise()
AssertHolds(op, v) ==
    IF op = "auto_raise" THEN ~v ELSE v

AssertMsg(op) == IF op = "auto_raise" THEN RaiseMsg ELSE LowerMsg

Top == stack[Len(stack)]
Below == SubSeq(stack, 1, Len(stack) - 1)
SetTop(f) == Below \o <<f>>

NoResult == [kind |-> "none", value |-> FALSE, exc |-> NoExc]

IdleFlags ==
    /\ devFlags = <<FALSE, FALSE>>
    /\ stack = <<>>
    /\ fret = NoResult
    /\ cur = [op |-> "-", arg |-> ArgNone, start |-> <<FALSE, FALSE>>]
    /\ cmdLog = <<>>
    /\ fcalls = 0

\* The flag vector the controller starts with: any but (off, on).
InitFlags ==
    /\ devFlags \in {<<FALSE, FALSE>>, <<TRUE, FALSE>>, <<TRUE, TRUE>>}
    /\ stack = <<>>
    /\ fret = NoResult
    /\ cur = [op |-> "-", arg |-> ArgNone, start |-> devFlags]
    /\ cmdLog = <<>>
    /\ fcalls = 0

\* The user calls auto_raise(arg) or auto_lower(arg).
\* The entry of auto_raise(arg) / auto_lower(arg) called from outside.
BeginFlagCall(op, arg) ==
    /\ stack' = <<[op |-> op, arg |-> arg, pc |-> "query",
                   flags |-> <<"-", "-">>]>>
    /\ cur' = [op |-> op, arg |-> arg, start |-> devFlags]
    /\ cmdLog' = <<>>
    /\ fret' = NoResult
    /\ UNCHANGED devFlags

FlagCall(op, arg) ==
    /\ UNCHANGED notFlags
    /\ stack = <<>>
    /\ fcalls < MaxFlagCalls
    /\ fcalls' = fcalls + 1
    /\ BeginFlagCall(op, arg)

\* An exception leaves every active call: none of them catches it.
Unwind(e) ==
    /\ stack' = <<>>
    /\ fret' = [kind |-> "raise", value |-> FALSE, exc |-> e]

\* lines 153-155 / 170-172: retval = send_command(':PRB:DNM?'), split.
FlagQuery ==
    /\ UNCHANGED notFlags
    /\ stack # <<>>
    /\ Top.pc = "query"
    /\ \E o \in Outcomes :
         /\ cmdLog' = Append(cmdLog, [cmd |-> ":PRB:DNM?", words |-> <<>>,
                                      outcome |-> o])
         /\ IF o = "ok"
            THEN /\ stack' = SetTop([Top EXCEPT
                        !.flags = Report(devFlags),
                        !.pc = IF ~Top.arg.given THEN "return"
                               ELSE IF NeedsCheck(Top.op, Top.arg) THEN "check"
                               ELSE "set"])
                 /\ UNCHANGED fret
            ELSE Unwind(TransportError)
    /\ UNCHANGED <<devFlags, cur, fcalls>>

\* lines 157 / 174: the assert calls the other method without an argument.
FlagCheck ==
    /\ UNCHANGED notFlags
    /\ stack # <<>>
    /\ Top.pc = "check"
    /\ stack' = SetTop([Top EXCEPT !.pc = "assert"])
                 \o <<[op |-> Other(Top.op), arg |-> ArgNone, pc |-> "query",
                       flags |-> <<"-", "-">>]>>
    /\ UNCHANGED <<devFlags, fret, cur, cmdLog, fcalls>>

\* lines 161 / 178: return {'True':True,'False':False}[auto_z_flags[i]].
\* The outermost call hands the value to the user; an inner call hands it to
\* the assert of its caller, which raises AssertionError when it is violated.
FlagReturn ==
    /\ UNCHANGED notFlags
    /\ stack # <<>>
    /\ Top.pc = "return"
    /\ LET v == PyBool(Top.flags[Slot(Top.op)])
       IN IF Len(stack) = 1
          THEN /\ stack' = <<>>
               /\ fret' = [kind |-> "return", value |-> v, exc |-> NoExc]
          ELSE LET caller == stack[Len(stack) - 1]
               IN IF AssertHolds(caller.op, v)
                  THEN /\ stack' = SubSeq(stack, 1, Len(stack) - 2)
                                   \o <<[caller EXCEPT !.pc = "set"]>>
                       /\ UNCHANGED fret
                  ELSE Unwind(AssertionError(AssertMsg(caller.op)))
    /\ UNCHANGED <<devFlags, cur, cmdLog, fcalls>>

\* A variant of lines 158 / 175 that writes the new value to both elements.
SetWordsBoth(flags, op, val) == <<PyStr(val), PyStr(val)>>

\* lines 158 / 175: auto_z_flags[i] = {True:'True',False:'False'}[arg].
SetWords(flags, op, val) == [flags EXCEPT ![Slot(op)] = PyStr(val)]

\* lines 158-160 / 175-177: the element is replaced, the whole vector is
\* sent, and the reply is split again.
FlagSet ==
    /\ UNCHANGED notFlags
    /\ stack # <<>>
    /\ Top.pc = "set"
    /\ LET words == SetWords(Top.flags, Top.op, Top.arg.val)
       IN \E o \in Outcomes :
            /\ cmdLog' = Append(cmdLog, [cmd |-> ":PRB:DNM", words |-> words,
                                         outcome |-> o])
            /\ devFlags' = IF o = "fail" THEN devFlags ELSE DevRead(words)
            /\ IF o = "ok"
               THEN /\ stack' = SetTop([Top EXCEPT
                            !.flags = Report(DevRead(words)),
                            !.pc = "return"])
                    /\ UNCHANGED fret
               ELSE Unwind(TransportError)
    /\ UNCHANGED <<cur, fcalls>>

\* ============================ Probe_Measurement.probe_wafer / probe_die
\* Here too a send_command call is one step: it returns or it raises.
CmdOutcomes == {"ok", "fail"}

\* while x_index < 1e6, line 251.
DieSentinel == 1000000
\* np.full(self.datashape, -1), line 168, and '' of line 169 (a timestamp is
\* the value of the clock, which starts at 1).
Untested == -1
NoTime == 0
\* SR810_lockin.voltage_in: -1 on overload, else the reading.
MeasValues == {-1, 3}

\* The wafer map: its array shape (columns, rows) and its probe sequence.
WaferShape == <<2, 1>>
DieSeq == <<<<0, 0>>, <<1, 0>>>>
\* What the controller reports as its die: past the last die of the
\* sequence, a big number.
DevDieAt(pos) ==
    IF pos \in 1..Len(DieSeq) THEN DieSeq[pos]
    ELSE <<DieSentinel, DieSentinel>>

UnboundLocalError == [kind |-> "UnboundLocalError", cmd |-> "x_index"]
IndexError == [kind |-> "IndexError", cmd |-> "-"]
LockinError == [kind |-> "VisaIOError", cmd |-> "-"]
OSError == [kind |-> "OSError", cmd |-> "-"]

\* The indices of an array of shape (columns, rows, g); numpy also takes a
\* negative index i >= -n for n + i.
GridKeys(g) == (0..(WaferShape[1] - 1)) \X (0..(WaferShape[2] - 1)) \X (0..(g - 1))
Wrap(i, n) == IF i < 0 THEN n + i ELSE i
InGrid(x, y, i) ==
    /\ -WaferShape[1] <= x /\ x < WaferShape[1]
    /\ -WaferShape[2] <= y /\ y < WaferShape[2]
    /\ -gridSubs <= i /\ i < gridSubs
Key(x, y, i) == <<Wrap(x, WaferShape[1]), Wrap(y, WaferShape[2]), Wrap(i, gridSubs)>>

\* reset_data_array, lines 168-169.
FreshData(g) == [k \in GridKeys(g) |-> Untested]
FreshTimes(g) == [k \in GridKeys(g) |-> NoTime]

NoScanResult == [state |-> "none", exc |-> NoExc]
NoCancel == [raised |-> FALSE, at |-> "-", die |-> <<0, 0>>]

\* The object after construction, on a controller at place `dd` of the probe
\* sequence with a subsite map of `ns` subsites, the grids having `gs`
\* entries per die.
ScanStart(dd, ns, gs) ==
    /\ devDie = dd
    /\ devSub = 1
    /\ devPatRec = FALSE
    /\ nsub = ns
    /\ gridSubs = gs
    /\ self_data = FreshData(gs)
    /\ self_times = FreshTimes(gs)
    /\ h5voltages = FreshData(gs)
    /\ h5times = FreshTimes(gs)
    /\ h5Open = FALSE
    /\ scanPc = "idle"
    /\ reset_die = FALSE
    /\ use_patrec = FALSE
    /\ start_time = 0
    /\ x_index = 0
    /\ y_index = 0
    /\ xyBound = FALSE
    /\ x_i = 0
    /\ y_i = 0
    /\ index = 0
    /\ pending = NoExc
    /\ clock = 1
    /\ visits = <<>>
    /\ meas = 0
    /\ nextRet = <<>>
    /\ issued = <<>>
    /\ cancel = NoCancel
    /\ envFault = FALSE
    /\ scanResult = NoScanResult

IdleScan == ScanStart(1, 1, 2)

\* subsite_shape() raises NotImplementedError, so the constructor cannot set
\* the shape of the grids: it is an input, here the number of subsites or one
\* more.
InitScan ==
    \E dd \in 1..(Len(DieSeq) + 1), ns \in 1..MaxSubsites :
        \E gs \in {ns, ns + 1} : ScanStart(dd, ns, gs)

Cmd(c, a, o) == [cmd |-> c, args |-> a, outcome |-> o]

\* The exception leaves probe_wafer from outside its try block.
Leave(e) ==
    /\ scanPc' = "done"
    /\ scanResult' = [state |-> "Aborted", exc |-> e]

\* The arrays of a data file written by an earlier scan that probed every
\* subsite of every die at time `t`.
PriorData(g) ==
    [k \in GridKeys(g) |->
        IF k[3] >= 1 THEN CHOOSE v \in MeasValues : v # Untested ELSE Untested]
PriorTimes(g, t) == [k \in GridKeys(g) |-> IF k[3] >= 1 THEN t ELSE NoTime]

\* lines 145-151: restore(data_file): self.data and self.times are replaced
\* by the arrays of a file of an earlier scan.  It is called at most once
\* here, before the scan.
Restore ==
    /\ scanPc = "idle"
    /\ clock = 1
    /\ self_data' = PriorData(gridSubs)
    /\ self_times' = PriorTimes(gridSubs, clock)
    /\ clock' = clock + 1
    /\ UNCHANGED <<calVars, patVars, navVars, sendVars, flagVars, devVars, h5voltages, h5times, h5Open,
                   scanPc, inputVars, xyVars, dieVars, pending, visits,
                   issued, cancel, envFault, scanResult>>

\* A variant of line 239 that calls auto_lower(True) first.
ProbeWaferLowerFirst(r, pr) ==
    /\ scanPc = "idle"
    /\ stack = <<>>
    /\ reset_die' = r
    /\ use_patrec' = pr
    /\ start_time' = clock
    /\ scanPc' = "auto_raise"
    /\ BeginFlagCall("auto_lower", Arg(TRUE))
    /\ UNCHANGED <<calVars, patVars, navVars, sendVars, fcalls, devVars, gridVars, h5Open, xyVars,
                   dieVars, pending, clock, visits, issued, cancel, envFault,
                   scanResult>>

\* lines 237-239: probe_wafer is called; self._p200.auto_raise(True).
ProbeWafer(r, pr) ==
    /\ scanPc = "idle"
    /\ stack = <<>>
    /\ reset_die' = r
    /\ use_patrec' = pr
    /\ start_time' = clock
    /\ scanPc' = "auto_raise"
    /\ BeginFlagCall("auto_raise", Arg(TRUE))
    /\ UNCHANGED <<calVars, patVars, navVars, sendVars, fcalls, devVars, gridVars, h5Open, xyVars,
                   dieVars, pending, clock, visits, issued, cancel, envFault,
                   scanResult>>

\* line 240: auto_raise(True) is over; self._p200.auto_lower(True).
EntryAutoLower ==
    /\ scanPc = "auto_raise"
    /\ stack = <<>>
    /\ IF fret.kind = "raise"
       THEN /\ Leave(fret.exc)
            /\ envFault' = TRUE
            /\ UNCHANGED flagVars
       ELSE /\ scanPc' = "auto_lower"
            /\ BeginFlagCall("auto_lower", Arg(TRUE))
            /\ UNCHANGED <<fcalls, envFault, scanResult>>
    /\ UNCHANGED <<calVars, patVars, navVars, sendVars, devVars, gridVars, h5Open, inputVars, xyVars,
                   dieVars, pending, clock, visits, issued, cancel>>

\* line 241: auto_lower(True) is over; use_pattern_recognition(b), a set
\* command and a query.
EntryPatRec ==
    /\ scanPc = "auto_lower"
    /\ stack = <<>>
    /\ IF fret.kind = "raise"
       THEN /\ Leave(fret.exc)
            /\ envFault' = TRUE
            /\ UNCHANGED devPatRec
       ELSE \E o \in CmdOutcomes :
              IF o = "ok"
              THEN /\ devPatRec' = use_patrec
                   /\ scanPc' = "get_h5"
                   /\ UNCHANGED <<envFault, scanResult>>
              ELSE /\ devPatRec' \in {devPatRec, use_patrec}
                   /\ Leave(TransportError)
                   /\ envFault' = TRUE
    /\ UNCHANGED <<calVars, patVars, navVars, sendVars, flagVars, devDie, devSub, nsub, gridSubs,
                   gridVars, h5Open, inputVars, xyVars, dieVars, pending,
                   clock, visits, issued, cancel>>

\* line 243: h5file = self.get_h5(data_file); a new file gets the datasets
\* 'voltages' and 'times' from self.data and self.times (lines 125-126,
\* 136-137), a file that exists is opened as it is.
GetH5 ==
    /\ scanPc = "get_h5"
    /\ \E o \in CmdOutcomes :
         IF o = "ok"
         THEN /\ h5Open' = TRUE
              /\ \E exists \in BOOLEAN :
                   IF exists
                   THEN UNCHANGED <<h5voltages, h5times>>
                   ELSE /\ h5voltages' = self_data
                        /\ h5times' = self_times
              /\ scanPc' = "try"
              /\ UNCHANGED <<envFault, scanResult>>
         ELSE /\ Leave(OSError)
              /\ envFault' = TRUE
              /\ UNCHANGED <<h5Open, h5voltages, h5times>>
    /\ UNCHANGED <<calVars, patVars, navVars, sendVars, flagVars, devVars, self_data, self_times, inputVars,
                   xyVars, dieVars, pending, clock, visits, issued, cancel>>

\* An exception raised inside the try block.
Raise(e) ==
    /\ pending' = e
    /\ scanPc' = IF e = KeyboardInterrupt THEN "kbd_handler" ELSE "err_handler"

\* A variant of reset_data_array that sends ':WFR:RESET' and keeps the arrays.
TryResetKeepsData ==
    /\ scanPc = "try"
    /\ reset_die
    /\ \E o \in CmdOutcomes :
         /\ issued' = Append(issued, Cmd(":WFR:RESET", <<>>, o))
         /\ IF o = "ok"
            THEN scanPc' = "while" /\ UNCHANGED <<pending, envFault>>
            ELSE Raise(TransportError) /\ envFault' = TRUE
    /\ UNCHANGED <<calVars, patVars, navVars, sendVars, flagVars, devVars, gridVars, h5Open,
                   inputVars, xyVars, dieVars, clock, visits, cancel,
                   scanResult>>

\* lines 246-247: reset_die: reset_data_array(reset_wafer_map=True), which
\* refills the two arrays and sends ':WFR:RESET'.
TryReset ==
    /\ scanPc = "try"
    /\ reset_die
    /\ self_data' = FreshData(gridSubs)
    /\ self_times' = FreshTimes(gridSubs)
    /\ \E o \in CmdOutcomes :
         /\ issued' = Append(issued, Cmd(":WFR:RESET", <<>>, o))
         /\ IF o = "ok"
            THEN scanPc' = "while" /\ UNCHANGED <<pending, envFault>>
            ELSE Raise(TransportError) /\ envFault' = TRUE
    /\ UNCHANGED <<calVars, patVars, navVars, sendVars, flagVars, devVars, h5voltages, h5times, h5Open,
                   inputVars, xyVars, dieVars, clock, visits, cancel,
                   scanResult>>

\* lines 248-249: x_index, y_index = self._p200.goto_same_die(), which sends
\* ':WFR:POS:CR?' and ':PRB:REFXY 0 0' and returns the reply to the first.
TrySameDie ==
    /\ scanPc = "try"
    /\ ~reset_die
    /\ \/ /\ issued' = issued \o <<Cmd(":WFR:POS:CR?", <<>>, "ok"),
                                   Cmd(":PRB:REFXY", <<0, 0>>, "ok")>>
          /\ x_index' = DevDieAt(devDie)[1]
          /\ y_index' = DevDieAt(devDie)[2]
          /\ xyBound' = TRUE
          /\ scanPc' = "while"
          /\ UNCHANGED <<pending, envFault>>
       \/ /\ issued' = Append(issued, Cmd(":WFR:POS:CR?", <<>>, "fail"))
          /\ Raise(TransportError)
          /\ envFault' = TRUE
          /\ UNCHANGED xyVars
       \/ /\ issued' = issued \o <<Cmd(":WFR:POS:CR?", <<>>, "ok"),
                                   Cmd(":PRB:REFXY", <<0, 0>>, "fail")>>
          /\ Raise(TransportError)
          /\ envFault' = TRUE
          /\ UNCHANGED xyVars
    /\ UNCHANGED <<calVars, patVars, navVars, sendVars, flagVars, devVars, gridVars, h5Open, inputVars,
                   dieVars, clock, visits, cancel, scanResult>>

\* while x_index < 1e6, line 251.
DieLoopContinues(x) == x < DieSentinel

\* lines 263-267: the try block is left without an exception.
Complete ==
    /\ h5Open' = FALSE
    /\ scanPc' = "done"
    /\ scanResult' = [state |-> "Completed", exc |-> NoExc]

\* line 251: the test of the die loop; reading x_index before it was ever
\* assigned raises UnboundLocalError.  line 252 calls probe_die.
While ==
    /\ scanPc = "while"
    /\ IF ~xyBound
       THEN Raise(UnboundLocalError) /\ UNCHANGED <<h5Open, scanResult>>
       ELSE IF DieLoopContinues(x_index)
            THEN /\ Len(visits) < MaxVisits
                 /\ scanPc' = "probe_die"
                 /\ UNCHANGED <<h5Open, pending, scanResult>>
            ELSE Complete /\ UNCHANGED pending
    /\ UNCHANGED <<calVars, patVars, navVars, sendVars, flagVars, devVars, gridVars, inputVars, xyVars,
                   dieVars, clock, visits, issued, cancel, envFault>>

\* while index != -1, line 185.
SubsiteLoopContinuesZero(i) == i # 0

SubsiteLoopContinues(i) == i # -1

\* lines 178-185: x_i, y_i = get_die(); index = 1; goto_subsite(1); the
\* first test of the subsite loop.
ProbeDieStart ==
    /\ scanPc = "probe_die"
    /\ visits' = Append(visits, DevDieAt(devDie))
    /\ meas' = 0
    /\ nextRet' = <<>>
    /\ \/ /\ Raise(TransportError)
          /\ envFault' = TRUE
          /\ UNCHANGED <<x_i, y_i, index, devSub>>
       \/ /\ x_i' = DevDieAt(devDie)[1]
          /\ y_i' = DevDieAt(devDie)[2]
          /\ index' = 1
          /\ Raise(TransportError)
          /\ envFault' = TRUE
          /\ UNCHANGED devSub
       \/ /\ x_i' = DevDieAt(devDie)[1]
          /\ y_i' = DevDieAt(devDie)[2]
          /\ index' = 1
          /\ devSub' = 1
          /\ scanPc' = IF SubsiteLoopContinues(1) THEN "measure" ELSE "while"
          /\ UNCHANGED <<pending, envFault>>
    /\ UNCHANGED <<calVars, patVars, navVars, sendVars, flagVars, devDie, devPatRec, nsub, gridSubs,
                   gridVars, h5Open, inputVars, xyVars, clock, issued, cancel,
                   scanResult>>

\* lines 186-188: the lock-in is read, the value and the time are stored in
\* self.data and self.times.  An index outside the array raises IndexError
\* at line 187.
Measure ==
    /\ scanPc = "measure"
    /\ meas' = meas + 1
    /\ \/ /\ Raise(LockinError)
          /\ envFault' = TRUE
          /\ UNCHANGED <<self_data, self_times, clock>>
       \/ /\ ~InGrid(x_i, y_i, index)
          /\ Raise(IndexError)
          /\ UNCHANGED <<self_data, self_times, clock, envFault>>
       \/ /\ InGrid(x_i, y_i, index)
          /\ \E v \in MeasValues :
               self_data' = [self_data EXCEPT ![Key(x_i, y_i, index)] = v]
          /\ self_times' = [self_times EXCEPT ![Key(x_i, y_i, index)] = clock]
          /\ clock' = clock + 1
          /\ scanPc' = "persist"
          /\ UNCHANGED <<pending, envFault>>
    /\ UNCHANGED <<calVars, patVars, navVars, sendVars, flagVars, devVars, h5voltages, h5times, h5Open,
                   inputVars, xyVars, x_i, y_i, index, nextRet, visits,
                   issued, cancel, scanResult>>

\* A variant of lines 190-191 that copies the value and not the time.
PersistVoltageOnly ==
    /\ scanPc = "persist"
    /\ \/ /\ Raise(OSError)
          /\ envFault' = TRUE
          /\ UNCHANGED <<h5voltages, h5times>>
       \/ /\ h5voltages' = [h5voltages EXCEPT ![Key(x_i, y_i, index)] =
                                 self_data[Key(x_i, y_i, index)]]
          /\ scanPc' = "advance"
          /\ UNCHANGED <<h5times, pending, envFault>>
    /\ UNCHANGED <<calVars, patVars, navVars, sendVars, flagVars, devVars, self_data, self_times, h5Open,
                   inputVars, xyVars, dieVars, clock, visits, issued, cancel,
                   scanResult>>

\* lines 190-191: the value and the time are copied from self.data and
\* self.times to the datasets of the data file; a write to the file can
\* fail.
Persist ==
    /\ scanPc = "persist"
    /\ \/ /\ Raise(OSError)
          /\ envFault' = TRUE
          /\ UNCHANGED <<h5voltages, h5times>>
       \/ /\ h5voltages' = [h5voltages EXCEPT ![Key(x_i, y_i, index)] =
                                 self_data[Key(x_i, y_i, index)]]
          /\ h5times' = [h5times EXCEPT ![Key(x_i, y_i, index)] =
                             self_times[Key(x_i, y_i, index)]]
          /\ scanPc' = "advance"
          /\ UNCHANGED <<pending, envFault>>
    /\ UNCHANGED <<calVars, patVars, navVars, sendVars, flagVars, devVars, self_data, self_times, h5Open,
                   inputVars, xyVars, dieVars, clock, visits, issued, cancel,
                   scanResult>>

\* The controller's reply to ':SUB:NEXT?': the next subsite, -1 after the
\* last one.
NextSubsite(sub, n) == IF sub >= 1 /\ sub < n THEN sub + 1 ELSE -1

\* line 193 and the test of line 185: index = goto_next_subsite().
Advance ==
    /\ scanPc = "advance"
    /\ \/ /\ Raise(TransportError)
          /\ envFault' = TRUE
          /\ UNCHANGED <<index, devSub, nextRet>>
       \/ LET r == NextSubsite(devSub, nsub)
          IN /\ devSub' = r
             /\ index' = r
             /\ nextRet' = Append(nextRet, r)
             /\ scanPc' = IF SubsiteLoopContinues(r) THEN "measure" ELSE "while"
             /\ UNCHANGED <<pending, envFault>>
    /\ UNCHANGED <<calVars, patVars, navVars, sendVars, flagVars, devDie, devPatRec, nsub, gridSubs,
                   gridVars, h5Open, inputVars, xyVars, x_i, y_i, meas, clock,
                   visits, issued, cancel, scanResult>>

TryPcs == {"try", "while", "probe_die", "measure", "persist", "advance"}
DiePcs == {"probe_die", "measure", "persist", "advance"}
EntryPcs == {"auto_raise", "auto_lower", "get_h5"}

\* A KeyboardInterrupt arrives while the try block runs.
Interrupt ==
    /\ scanPc \in TryPcs
    /\ Raise(KeyboardInterrupt)
    /\ cancel' = [raised |-> TRUE, at |-> scanPc, die |-> DevDieAt(devDie)]
    /\ envFault' = TRUE
    /\ UNCHANGED <<calVars, patVars, navVars, sendVars, flagVars, devVars, gridVars, h5Open, inputVars,
                   xyVars, dieVars, clock, visits, issued, scanResult>>

\* A KeyboardInterrupt arrives before the try block: nothing catches it.
EntryInterrupt ==
    /\ scanPc \in EntryPcs
    /\ Leave(KeyboardInterrupt)
    /\ stack' = <<>>
    /\ cancel' = [raised |-> TRUE, at |-> scanPc, die |-> DevDieAt(devDie)]
    /\ envFault' = TRUE
    /\ UNCHANGED <<calVars, patVars, navVars, sendVars, devFlags, fret, cur, cmdLog, fcalls, devVars,
                   gridVars, h5Open, inputVars, xyVars, dieVars, pending,
                   clock, visits, issued>>

\* lines 257-258: what leaves the handler after send_command(':WFR:BIN ...')
\* with outcome `o`: the bare raise re-raises the KeyboardInterrupt only when
\* send_command returned; an exception of send_command leaves instead.
AfterMark(o, e) == IF o = "ok" THEN e ELSE TransportError

\* lines 254-258 and 263-264: except KeyboardInterrupt: the die is marked
\* with x_index and y_index (UnboundLocalError when they were never
\* assigned), the exception goes on, and the finally clause closes the file.
KbdHandler ==
    /\ scanPc = "kbd_handler"
    /\ IF ~xyBound
       THEN /\ scanResult' = [state |-> "Aborted", exc |-> UnboundLocalError]
            /\ UNCHANGED issued
       ELSE \E o \in CmdOutcomes :
              /\ issued' = Append(issued,
                                  Cmd(":WFR:BIN", <<x_index, y_index>>, o))
              /\ scanResult' = [state |-> "Aborted",
                                exc |-> AfterMark(o, pending)]
    /\ h5Open' = FALSE
    /\ scanPc' = "done"
    /\ UNCHANGED <<calVars, patVars, navVars, sendVars, flagVars, devVars, gridVars, inputVars, xyVars,
                   dieVars, pending, clock, visits, cancel, envFault>>

\* lines 259-264: except: the exception goes on as it is, and the finally
\* clause closes the file.
ErrHandler ==
    /\ scanPc = "err_handler"
    /\ scanResult' = [state |-> "Aborted", exc |-> pending]
    /\ h5Open' = FALSE
    /\ scanPc' = "done"
    /\ UNCHANGED <<calVars, patVars, navVars, sendVars, flagVars, devVars, gridVars, inputVars, xyVars,
                   dieVars, pending, clock, visits, issued, cancel, envFault>>

NextScan ==
    \/ Restore
    \/ \E r \in BOOLEAN, pr \in BOOLEAN : ProbeWafer(r, pr)
    \/ FlagQuery
    \/ FlagCheck
    \/ FlagReturn
    \/ FlagSet
    \/ EntryAutoLower
    \/ EntryPatRec
    \/ GetH5
    \/ TryReset
    \/ TrySameDie
    \/ While
    \/ ProbeDieStart
    \/ Measure
    \/ Persist
    \/ Advance
    \/ Interrupt
    \/ EntryInterrupt
    \/ KbdHandler
    \/ ErrHandler

NextFlags ==
    \/ \E op \in Ops, arg \in Args : FlagCall(op, arg)
    \/ FlagQuery
    \/ FlagCheck
    \/ FlagReturn
    \/ FlagSet

NextSend ==
    \/ \E m \in Commands : Send(m)
    \/ RecvBytes
    \/ RecvEof
    \/ RecvRaises
    \/ Interrupted
    \/ Parse
    \/ Except
    \/ DeviceEmit
    \/ DeviceClose

\* ============================== calibrate / adjust / change_z_down
\* The height correction of Probe_Measurement, as test.py drives it on
\* ProbeOffline.  Numbers are exact fractions <<numerator, denominator>> with
\* a positive denominator, in lowest terms.
MaxFits == 1
MaxZSteps == 3

\* The hysteresis threshold.
DELTA == 5

\* Calibration points (x, y, z) and the positions of height-correction steps.
CalPoints == (0..1) \X (0..1) \X (0..1)
\* The rows of a fit: three points, listed in a fixed order (the fitted
\* plane does not depend on the order of the rows).
Rank(p) == 4 * p[1] + 2 * p[2] + p[3]
Fits == {f \in [1..3 -> CalPoints] :
            Rank(f[1]) < Rank(f[2]) /\ Rank(f[2]) < Rank(f[3])}
Positions == {<<0, 0>>, <<0, 1>>, <<10, 0>>, <<0, 10>>, <<0, 5>>}

Abs(n) == IF n < 0 THEN -n ELSE n
RECURSIVE Gcd(_, _)
Gcd(m, n) == IF n = 0 THEN m ELSE Gcd(n, m % n)
Frac(n, d) ==
    LET g == Gcd(Abs(n), Abs(d))
        sg == IF d < 0 THEN -1 ELSE 1
    IN <<(sg * n) \div g, (sg * d) \div g>>
Whole(n) == <<n, 1>>
\* |p - q| >= k
FarApart(p, q, k) == Abs(p[1] * q[2] - q[1] * p[2]) >= k * p[2] * q[2]

RECURSIVE Sum(_)
Sum(q) == IF q = <<>> THEN 0 ELSE q[1] + Sum(Tail(q))
Det3(m) ==
      m[1][1] * (m[2][2] * m[3][3] - m[2][3] * m[3][2])
    - m[1][2] * (m[2][1] * m[3][3] - m[2][3] * m[3][1])
    + m[1][3] * (m[2][1] * m[3][2] - m[2][2] * m[3][1])

\* The normal equations of the least-squares plane z ~ a x + b y + c through
\* the rows of `pts`: (A^T A) (a, b, c) = A^T z with rows (x, y, 1) in A.
Gram(pts) ==
    LET n == Len(pts)
        sxx == Sum([i \in 1..n |-> pts[i][1] * pts[i][1]])
        sxy == Sum([i \in 1..n |-> pts[i][1] * pts[i][2]])
        syy == Sum([i \in 1..n |-> pts[i][2] * pts[i][2]])
        sx == Sum([i \in 1..n |-> pts[i][1]])
        sy == Sum([i \in 1..n |-> pts[i][2]])
    IN <<<<sxx, sxy, sx>>,
         <<sxy, syy, sy>>,
         <<sx, sy, n>>>>
Moments(pts) ==
    LET n == Len(pts)
    IN <<Sum([i \in 1..n |-> pts[i][1] * pts[i][3]]),
         Sum([i \in 1..n |-> pts[i][2] * pts[i][3]]),
         Sum([i \in 1..n |-> pts[i][3]])>>
\* Matrix m with column j replaced by v (Cramer's rule).
WithColumn(m, j, v) ==
    [r \in 1..3 |-> [c \in 1..3 |-> IF c = j THEN v[r] ELSE m[r][c]]]

\* fit fails on fewer than three points and on points that do not determine
\* a plane.
InsufficientPoints(pts) == Len(pts) < 3
Degenerate(pts) == Det3(Gram(pts)) = 0

\* self.adjust before any fit.
NoPlane == [points |-> <<>>, a |-> 0, b |-> 0, c |-> 0, d |-> 0]

\* A variant of the fit that takes the x column for the y column.
PlaneOfSwapped(pts) ==
    LET m == Gram(pts)
        v == Moments(pts)
    IN [points |-> pts,
        a |-> Det3(WithColumn(m, 1, v)),
        b |-> Det3(WithColumn(m, 1, v)),
        c |-> Det3(WithColumn(m, 3, v)),
        d |-> Det3(m)]

\* The fitted plane: z = (a x + b y + c) / d.
PlaneOf(pts) ==
    LET m == Gram(pts)
        v == Moments(pts)
    IN [points |-> pts,
        a |-> Det3(WithColumn(m, 1, v)),
        b |-> Det3(WithColumn(m, 2, v)),
        c |-> Det3(WithColumn(m, 3, v)),
        d |-> Det3(m)]

\* predict(x, y) on a fitted plane.
Predict(pl, pos) == Frac(pl.a * pos[1] + pl.b * pos[2] + pl.c, pl.d)

\* A variant of the hysteresis test with a strict comparison.
NeedsPushStrict(last, pred) ==
    \/ last = None
    \/ /\ FarApart(last, pred, DELTA)
       /\ Abs(last[1] * pred[2] - pred[1] * last[2]) # DELTA * last[2] * pred[2]

\* The prediction is pushed when no z-down was commanded yet or when it is
\* at least DELTA away from the last one commanded.
NeedsPush(last, pred) == last = None \/ FarApart(last, pred, DELTA)

NoStep == [kind |-> "none", pos |-> <<0, 0>>, points |-> <<>>, prev |-> None,
           pred |-> None, writes |-> 0]

\* ProbeOffline.__init__ and P200Offline.__init__ of test.py.
InitCal ==
    /\ adjust = NoPlane
    /\ z_down = None
    /\ p200_z_down = Whole(0)
    /\ hwWrites = 0
    /\ fits = 0
    /\ zsteps = 0
    /\ lastStep = NoStep

\* calibrate(points): a failed fit leaves the plane as it was.
Calibrate(pts) ==
    /\ fits < MaxFits
    /\ fits' = fits + 1
    /\ adjust' = IF InsufficientPoints(pts) \/ Degenerate(pts)
                 THEN adjust
                 ELSE PlaneOf(pts)
    /\ UNCHANGED <<z_down, p200_z_down, hwWrites, zsteps, lastStep>>
    /\ UNCHANGED <<sendVars, flagVars, scanVars, patVars, navVars>>

\* P200Offline.set_z_down(new_z).
set_z_down(new_z) ==
    /\ p200_z_down' = new_z
    /\ hwWrites' = hwWrites + 1

\* A variant of change_z_down that commands a z-down of 0 when there is no
\* fit.
StepUnfittedPushesZero(pos) ==
    /\ lastStep' = [kind |-> "unfitted", pos |-> pos, points |-> <<>>,
                    prev |-> z_down, pred |-> None, writes |-> hwWrites]
    /\ z_down' = Whole(0)
    /\ p200_z_down' = Whole(0)
    /\ hwWrites' = hwWrites + 1

\* change_z_down(x, y) before any fit: nothing happens.
StepUnfitted(pos) ==
    /\ lastStep' = [kind |-> "unfitted", pos |-> pos, points |-> <<>>,
                    prev |-> z_down, pred |-> None, writes |-> hwWrites]
    /\ UNCHANGED <<z_down, p200_z_down, hwWrites>>

\* change_z_down(x, y) on a fitted plane.
StepFitted(pos) ==
    LET pred == Predict(adjust, pos)
    IN /\ lastStep' = [kind |-> "fitted", pos |-> pos,
                       points |-> adjust.points, prev |-> z_down,
                       pred |-> pred, writes |-> hwWrites]
       /\ IF NeedsPush(z_down, pred)
          THEN z_down' = pred /\ set_z_down(pred)
          ELSE UNCHANGED <<z_down, p200_z_down, hwWrites>>

ChangeZDown(pos) ==
    /\ zsteps < MaxZSteps
    /\ zsteps' = zsteps + 1
    /\ IF adjust = NoPlane THEN StepUnfitted(pos) ELSE StepFitted(pos)
    /\ UNCHANGED <<adjust, fits>>
    /\ UNCHANGED <<sendVars, flagVars, scanVars, patVars, navVars>>

NextCal ==
    \/ \E pts \in Fits : Calibrate(pts)
    \/ \E pos \in Positions : ChangeZDown(pos)

\* ======================================== P200L.use_pattern_recognition
MaxPatCalls == 3

KeyError(k) == [kind |-> "KeyError", cmd |-> k]

\* line 189: the word sent for do_rec.
PatRecWord(b) == IF b THEN "true" ELSE "false"
\* The controller reads the word of ':WFR:PATREC <word>' whatever its case,
\* and answers ':WFR:PATREC?' with "True" or "False".
DevPatRecRead(w) == w \in {"true", "True"}
DevPatRecReply(flag) == PyStr(flag)

\* A variant of line 191 that looks the reply up under the words it sends.
PatRecLookupLower(reply) ==
    IF reply \in {"true", "false"}
    THEN [kind |-> "return", value |-> reply = "true", exc |-> NoExc]
    ELSE [kind |-> "raise", value |-> FALSE, exc |-> KeyError(reply)]

\* line 191: {"True":True, "False":False}[reply].
PatRecLookup(reply) ==
    IF reply \in {"True", "False"}
    THEN [kind |-> "return", value |-> reply = "True", exc |-> NoExc]
    ELSE [kind |-> "raise", value |-> FALSE, exc |-> KeyError(reply)]

InitPat == patLog = <<>>

\* What the call gives its caller when the set command (if any) had outcome
\* `so` and the query had outcome `qo`, the flag of the controller being
\* `flag` when the query is answered.
PatRecResult(so, qo, flag) ==
    IF so \in {"fail", "lost"} \/ qo = "fail"
    THEN [kind |-> "raise", value |-> FALSE, exc |-> TransportError]
    ELSE PatRecLookup(DevPatRecReply(flag))

\* lines 188-191: use_pattern_recognition(do_rec): the set command when
\* do_rec is given, then the query, whose reply is looked up and returned.
UsePatternRecognition(arg, so, qo) ==
    /\ Len(patLog) < MaxPatCalls
    /\ arg.given \/ so = "ok"
    /\ so = "ok" \/ qo = "ok"
    /\ LET flag == IF arg.given /\ so \in {"ok", "lost"}
                   THEN DevPatRecRead(PatRecWord(arg.val))
                   ELSE devPatRec
           r == PatRecResult(so, qo, flag)
       IN /\ devPatRec' = flag
          /\ patLog' = Append(patLog,
                 [arg |-> arg, set |-> so, query |-> qo, before |-> devPatRec,
                  after |-> flag, kind |-> r.kind, value |-> r.value,
                  exc |-> r.exc])
    /\ UNCHANGED <<sendVars, flagVars, calVars, navVars, devDie, devSub, nsub,
                   gridSubs,
                   gridVars, h5Open, scanPc, inputVars, xyVars, dieVars,
                   pending, clock, visits, issued, cancel, envFault,
                   scanResult>>

NextPat ==
    \E arg \in Args, so \in Outcomes, qo \in CmdOutcomes :
        UsePatternRecognition(arg, so, qo)

\* ================= P200L.goto_die / goto_first_die / goto_same_die /
\* ================= goto_next_die
MaxNavCalls == 2

NavOps == {"goto_first_die", "goto_same_die", "goto_next_die", "goto_die"}
\* The first command of each operation.
MoveCmd(op) ==
    CASE op = "goto_first_die" -> ":WFR:FIRST?"
      [] op = "goto_same_die" -> ":WFR:POS:CR?"
      [] op = "goto_next_die" -> ":WFR:NEXT?"
      [] op = "goto_die" -> ":WFR:MOV:CR"
\* How the first command ends: like any command ("ok": send_command
\* returns its payload), or with a reply that carries no payload, so that
\* send_command returns None.
NavOutcomes == Outcomes \cup {"empty"}
\* None.split(' ') of lines 99, 109, 119.
AttributeError == [kind |-> "AttributeError", cmd |-> "-"]

\* The arguments of an operation: a die for goto_die, none for the others.
NavArgs(op) == IF op = "goto_die" THEN {DieSeq[i] : i \in 1..Len(DieSeq)}
               ELSE {<<>>}

\* Where the controller stands in the probe sequence after the first
\* command.
PlaceOf(xy) == CHOOSE i \in 1..Len(DieSeq) : DieSeq[i] = xy
DevMove(op, arg, place) ==
    CASE op = "goto_first_die" -> 1
      [] op = "goto_same_die" -> place
      [] op = "goto_next_die" -> IF place <= Len(DieSeq) THEN place + 1 ELSE place
      [] op = "goto_die" -> PlaceOf(arg)

\* The controller's reply "x y" as its fields, and line 99 / 109 / 119:
\* x, y = reply.split(' '); int(x), int(y).
DieReply(place) == <<"fields", DevDieAt(place)[1], DevDieAt(place)[2]>>
ParseDie(reply) == <<reply[2], reply[3]>>

\* What the operation returns once both commands went through: the die of
\* the first command's reply; goto_die has no return statement.
NavReturn(op, arg, place) ==
    IF op = "goto_die" THEN None ELSE ParseDie(DieReply(place))

\* A variant that sends ':PRB:REFXY 0 0' also after a failed first command.
NavCmdsAlwaysReset(op, arg, o1, o2) ==
    <<Cmd(MoveCmd(op), arg, o1), Cmd(":PRB:REFXY", <<0, 0>>, o2)>>

\* The commands of one call: the first command and, when send_command
\* returned from it and its reply was split, ':PRB:REFXY 0 0'.  goto_die
\* does not look at what send_command returned.
NavCmds(op, arg, o1, o2) ==
    IF o1 = "ok" \/ (o1 = "empty" /\ op = "goto_die")
    THEN <<Cmd(MoveCmd(op), arg, o1), Cmd(":PRB:REFXY", <<0, 0>>, o2)>>
    ELSE <<Cmd(MoveCmd(op), arg, o1)>>

InitNav == navLog = <<>>

\* One call of goto_die(x, y), goto_first_die(), goto_same_die() or
\* goto_next_die(): lines 71-75, 92-121.
Goto(op, arg, o1, o2) ==
    /\ Len(navLog) < MaxNavCalls
    /\ Len(NavCmds(op, arg, o1, o2)) = 2 \/ o2 = "ok"
    /\ LET place == IF o1 # "fail" THEN DevMove(op, arg, devDie)
                    ELSE devDie
           good == Len(NavCmds(op, arg, o1, o2)) = 2 /\ o2 = "ok"
       IN /\ devDie' = place
          /\ navLog' = Append(navLog,
                 [op |-> op, arg |-> arg, cmds |-> NavCmds(op, arg, o1, o2),
                  before |-> devDie, after |-> place,
                  kind |-> IF good THEN "return" ELSE "raise",
                  value |-> IF good THEN NavReturn(op, arg, place) ELSE None,
                  exc |-> IF good THEN NoExc
                          ELSE IF o1 = "empty" /\ op # "goto_die"
                               THEN AttributeError
                               ELSE TransportError])
    /\ UNCHANGED <<sendVars, flagVars, calVars, patVars, devSub, devPatRec,
                   nsub, gridSubs, gridVars, h5Open, scanPc, inputVars,
                   xyVars, dieVars, pending, clock, visits, issued, cancel,
                   envFault, scanResult>>

NextNav ==
    \E op \in NavOps, o1 \in NavOutcomes, o2 \in CmdOutcomes :
        \E arg \in NavArgs(op) : Goto(op, arg, o1, o2)

InitSpecSend ==
    /\ InitSend
    /\ IdleFlags
    /\ IdleScan
    /\ InitCal
    /\ InitPat
    /\ InitNav

InitSpecFlags ==
    /\ InitSend
    /\ InitFlags
    /\ IdleScan
    /\ InitCal
    /\ InitPat
    /\ InitNav

InitSpecScan ==
    /\ InitSend
    /\ InitFlags
    /\ InitScan
    /\ InitCal
    /\ InitPat
    /\ InitNav

SpecSend == InitSpecSend /\ [][NextSend]_vars

\* send_command under the scheduling the interpreter gives it: a running
\* call takes its next step (a read that has bytes or an end of stream to
\* return does return, a complete frame is parsed, the handler runs).
\* What the controller and the network do is not under any such condition.
SpecSendLive ==
    /\ InitSpecSend
    /\ [][NextSend]_vars
    /\ WF_vars(RecvBytes)
    /\ WF_vars(RecvEof)
    /\ WF_vars(Parse)
    /\ WF_vars(Except)

SpecFlags == InitSpecFlags /\ [][NextFlags]_vars

SpecScan == InitSpecScan /\ [][NextScan]_vars

InitSpecCal ==
    /\ InitSend
    /\ IdleFlags
    /\ IdleScan
    /\ InitCal
    /\ InitPat
    /\ InitNav

SpecCal == InitSpecCal /\ [][NextCal]_vars

InitSpecPat ==
    /\ InitSend
    /\ IdleFlags
    /\ IdleScan
    /\ InitCal
    /\ InitPat
    /\ InitNav

SpecPat == InitSpecPat /\ [][NextPat]_vars

\* The controller may stand at any die, or past the last one.
InitSpecNav ==
    /\ InitSend
    /\ IdleFlags
    /\ \E dd \in 1..(Len(DieSeq) + 1) : ScanStart(dd, 1, 2)
    /\ InitCal
    /\ InitPat
    /\ InitNav

SpecNav == InitSpecNav /\ [][NextNav]_vars

\* ===================================================== properties of send
Max(S) == CHOOSE x \in S : \A y \in S : y <= x
Frame(b) == <<b>>
HasFrame(fs, f) == \E i \in 1..Len(fs) : fs[i] = f

\* The positions of `fs` that directly follow a #192 frame.
After192(fs) == {i \in 2..Len(fs) : fs[i-1] = F192}
\* What a response with frames `fs` is to return: the text of the last frame
\* directly after a #192 frame, None when there is none.
ExpectedPayload(fs) ==
    IF After192(fs) = {} THEN None ELSE Decode(fs[Max(After192(fs))])

\* C1: a response parsed up to its #064 frame with no #066 or #079 frame
\* makes send_command return the text of the last frame that directly
\* followed a #192 frame, None when there was no #192 frame; and a call has
\* returned only when its last parsed frame, and no earlier one, is #064.
C1_ReturnsLastPayload ==
    /\ (/\ parsed # <<>>
        /\ parsed[Len(parsed)] = F064
        /\ ~HasFrame(parsed, F066)
        /\ ~HasFrame(parsed, F079))
       => /\ pc = "returned"
          /\ result = [kind |-> "return", value |-> ExpectedPayload(parsed),
                       exc |-> NoExc]
    /\ (pc = "returned" \/ result.kind = "return")
       => /\ parsed # <<>>
          /\ parsed[Len(parsed)] = F064
          /\ \A i \in 1..(Len(parsed) - 1) : parsed[i] # F064
          /\ ~HasFrame(parsed, F066)
          /\ ~HasFrame(parsed, F079)

\* C1 witness: #192 CR VALUE CR #064 CR has been parsed and "VALUE" returned.
C1_Witness ==
    /\ pc = "returned"
    /\ parsed = <<F192, Frame("VALUE"), F064>>
    /\ result.value = Decode(Frame("VALUE"))

\* C2: once a #066 frame has been parsed the call fails with the
\* bad-command error naming its command, and returns no value.
C2_BadCommandFails ==
    HasFrame(parsed, F066)
    => /\ pc \in {"except", "raised"}
       /\ exc = BadCommand(message)
       /\ result.kind # "return"
       /\ result.value = None
       /\ pc = "raised" => result = [kind |-> "raise", value |-> None,
                                     exc |-> BadCommand(message)]

\* C2 witness: the #066 frame came directly after a #192 marker, and the call
\* for command X has raised.
C2_Witness ==
    /\ pc = "raised"
    /\ message = "X"
    /\ parsed = <<F192, F066>>
    /\ result.exc = BadCommand("X")

\* C3: once a #079 frame has been parsed the call fails with the aborted
\* error for its command, also when a payload was captured before.
C3_AbortedFails ==
    HasFrame(parsed, F079)
    => /\ pc \in {"except", "raised"}
       /\ exc = Aborted(message)
       /\ result.kind # "return"
       /\ result.value = None
       /\ pc = "raised" => result = [kind |-> "raise", value |-> None,
                                     exc |-> Aborted(message)]

\* C3 witness: a payload was captured under #192, then #079 was parsed and
\* the call has raised.
C3_Witness ==
    /\ pc = "raised"
    /\ parsed = <<F192, Frame("VALUE"), F079>>
    /\ retval = Decode(Frame("VALUE"))
    /\ result.exc = Aborted(message)

\* C4: a call that has failed made exactly one connect attempt, to the
\* endpoint of the constructor, whether or not that attempt succeeded; a call
\* that is still running or has returned made none.  The socket is then the
\* one of that attempt.
C4_OneReconnect ==
    /\ pc = "raised"
       => /\ Len(connects) = 1
          /\ connects[1][1] = <<ip, port>>
          /\ session = sent[1][1] + 1
          /\ sock = (IF connects[1][2] THEN "connected" ELSE "unconnected")
    /\ pc \in {"loop", "except", "returned"} => connects = <<>>
    /\ pc = "returned" => session = sent[1][1]
    /\ result.kind = "raise" <=> pc = "raised"

\* C4 witness: a call has failed and its one reconnect attempt failed too.
C4_Witness ==
    /\ pc = "raised"
    /\ connects = <<<<Endpoint, FALSE>>>>
    /\ sock = "unconnected"

\* The exception a failed call is to give its caller, from what happened.
OriginalFailure ==
    IF HasFrame(parsed, F066) THEN BadCommand(message)
    ELSE IF HasFrame(parsed, F079) THEN Aborted(message)
    ELSE exc

\* C5: a failed call gives its caller the exception that made it fail,
\* whether the reconnect succeeded or not (a failed reconnect is only
\* reported by the warning), and the command was handed to the socket
\* exactly once.
C5_OriginalErrorOnce ==
    pc = "raised"
    => /\ result = [kind |-> "raise", value |-> None, exc |-> OriginalFailure]
       /\ exc # NoExc
       /\ warned = ~connects[1][2]
       /\ Len(sent) = 1
       /\ sent[1][2] = <<message, CR>>
       /\ Len(delivered) <= 1

\* C5 witness: a bad-command failure, the reconnect succeeded, the caller
\* has the bad-command error and the command went out once.
C5_Witness ==
    /\ pc = "raised"
    /\ connects = <<<<Endpoint, TRUE>>>>
    /\ result.exc = BadCommand(message)
    /\ delivered = <<message>>
    /\ Len(sent) = 1

\* ============================== properties of auto_raise / auto_lower
IssuedSet == \E i \in 1..Len(cmdLog) : cmdLog[i].cmd = ":PRB:DNM"
AllOk == \A i \in 1..Len(cmdLog) : cmdLog[i].outcome = "ok"

\* C6: from a flag vector other than (auto-raise off, auto-lower on), no
\* sequence of auto_raise / auto_lower calls, whether they return or raise,
\* brings the controller to (auto-raise off, auto-lower on).
C6_NeverLowerWithoutRaise ==
    devFlags # <<FALSE, TRUE>>

\* C6 witness: after auto_lower(True) succeeded, auto_raise(False) was
\* called and failed, and the vector is still (on, on).
C6_Witness ==
    /\ fcalls = 2
    /\ stack = <<>>
    /\ cur.op = "auto_raise"
    /\ cur.arg = Arg(FALSE)
    /\ cur.start = <<TRUE, TRUE>>
    /\ fret.kind = "raise"
    /\ devFlags = <<TRUE, TRUE>>

\* C7: auto_lower(True) called while the controller reports auto-raise off
\* never issues the flag-setting command, leaves both flags as they were,
\* and ends by raising: the ordering AssertionError when its queries went
\* through, the failure of a query otherwise.
C7_LowerNeedsRaise ==
    (cur.op = "auto_lower" /\ cur.arg = Arg(TRUE) /\ ~cur.start[1])
    => /\ ~IssuedSet
       /\ devFlags = cur.start
       /\ fret.kind # "return"
       /\ stack = <<>>
          => /\ fret.kind = "raise"
             /\ AllOk <=> fret.exc = AssertionError(LowerMsg)
             /\ ~AllOk <=> fret.exc = TransportError

\* C7 witness: auto_lower(True) on (off, off) has raised the ordering error
\* after its two queries.
C7_Witness ==
    /\ cur.op = "auto_lower"
    /\ cur.arg = Arg(TRUE)
    /\ cur.start = <<FALSE, FALSE>>
    /\ stack = <<>>
    /\ Len(cmdLog) = 2
    /\ fret.exc = AssertionError(LowerMsg)
    /\ devFlags = <<FALSE, FALSE>>

\* ============================================== properties of the scan
IsMark(c) == c.cmd = ":WFR:BIN"
Marks == SelectSeq(issued, IsMark)

\* C8: a scan with reset_die = True in which no command, file or measurement
\* fails and no KeyboardInterrupt arrives ends Completed, having called
\* probe_die once on each die of the probe sequence, in order.
C8_FreshScanVisitsEveryDie ==
    (scanPc = "done" /\ reset_die /\ ~envFault)
    => /\ scanResult.state = "Completed"
       /\ visits = DieSeq

\* C9: in the subsite loop of a die the lock-in is read once per subsite
\* visited: before a reading the readings taken equal the advances made,
\* after it they are one more; the loop body never runs after
\* goto_next_subsite returned -1, and the loop is left (other than by an
\* exception) only when its last return was -1.
C9_OneMeasurementPerSubsite ==
    /\ scanPc = "measure"
       => /\ meas = Len(nextRet)
          /\ index # -1
          /\ index = (IF nextRet = <<>> THEN 1 ELSE nextRet[Len(nextRet)])
          /\ \A i \in 1..Len(nextRet) : nextRet[i] # -1
    /\ scanPc \in {"persist", "advance"}
       => /\ meas = Len(nextRet) + 1
          /\ \A i \in 1..Len(nextRet) : nextRet[i] # -1
    /\ (scanPc = "while" /\ visits # <<>>)
       => /\ nextRet # <<>>
          /\ nextRet[Len(nextRet)] = -1
          /\ index = -1
          /\ \A i \in 1..(Len(nextRet) - 1) : nextRet[i] # -1
          /\ meas = Len(nextRet)

\* C9 witness: the subsites went 1, 2, 3, -1; the loop is over after three
\* readings.
C9_Witness ==
    /\ scanPc = "while"
    /\ visits # <<>>
    /\ nextRet = <<2, 3, -1>>
    /\ meas = 3

\* C10: when a KeyboardInterrupt arrived while a die was being probed, the
\* scan ends Aborted with that KeyboardInterrupt, after exactly one
\* ':WFR:BIN x y T' command with the coordinates of the die in progress.
C10_CancelMarksDieOnce ==
    (scanPc = "done" /\ cancel.raised /\ cancel.at \in DiePcs)
    => /\ Len(Marks) = 1
       /\ Marks[1].args = cancel.die
       /\ scanResult = [state |-> "Aborted", exc |-> KeyboardInterrupt]

\* C11: when an exception other than KeyboardInterrupt left the try block
\* after probe_die had been entered, the scan ends Aborted with that
\* exception after one ':WFR:BIN x y T' command for the die in progress.
C11_ErrorMarksDie ==
    (/\ scanPc = "done"
     /\ visits # <<>>
     /\ pending # NoExc
     /\ pending # KeyboardInterrupt)
    => /\ Len(Marks) = 1
       /\ Marks[1].args = <<x_index, y_index>>
       /\ scanResult = [state |-> "Aborted", exc |-> pending]

\* C12: when the ':WFR:BIN' command of a handler failed, the scan still ends
\* with the exception that was being handled.
C12_MarkFailureSuppressed ==
    (/\ scanPc = "done"
     /\ pending # NoExc
     /\ Marks # <<>>
     /\ Marks[Len(Marks)].outcome = "fail")
    => scanResult = [state |-> "Aborted", exc |-> pending]

HasIssued(c) == \E i \in 1..Len(issued) : issued[i].cmd = c /\ issued[i].outcome = "ok"
InLoop == scanPc \in {"while", "probe_die", "measure", "persist", "advance"}

\* C14: once the die loop runs, a scan with reset_die = True has issued the
\* go-to-first-die command ':WFR:FIRST?', a scan with reset_die = False the
\* go-to-same-die command ':WFR:POS:CR?' (each followed by ':PRB:REFXY 0 0'),
\* and x_index, y_index hold the die that command returned.
C14_EntryPositions ==
    InLoop
    => /\ xyBound
       /\ <<x_index, y_index>> = DevDieAt(devDie)
       /\ HasIssued(":PRB:REFXY")
       /\ reset_die => HasIssued(":WFR:FIRST?")
       /\ ~reset_die => HasIssued(":WFR:POS:CR?")

Attempted(c) == \E i \in 1..Len(issued) : issued[i].cmd = c
SameEntry(k) == self_data'[k] = self_data[k] /\ self_times'[k] = self_times[k]

\* C15, the state part: a scan with reset_die = True that reaches the die
\* loop has sent ':WFR:RESET', and from that command until a die is probed
\* every entry of self.data is -1 and every entry of self.times is '';
\* a scan with reset_die = False never sends ':WFR:RESET'.
C15_ResetState ==
    /\ (reset_die /\ InLoop) => Attempted(":WFR:RESET")
    /\ (reset_die /\ Attempted(":WFR:RESET") /\ visits = <<>>)
       => /\ self_data = FreshData(gridSubs)
          /\ self_times = FreshTimes(gridSubs)
    /\ ~reset_die => ~Attempted(":WFR:RESET")

\* C15, the step part: in a scan with reset_die = False an entry of
\* self.data or self.times changes only in the step that probes its subsite.
C15_ResumeStep ==
    (scanPc # "idle" /\ ~reset_die)
    => \A k \in GridKeys(gridSubs) :
         ~SameEntry(k)
         => /\ scanPc = "measure"
            /\ InGrid(x_i, y_i, index)
            /\ k = Key(x_i, y_i, index)

\* C15: a fresh scan resets both grids to the untested value and issues the
\* wafer-reset command; a resumed scan issues no wafer-reset command and
\* changes no grid entry other than those of the subsites it probes.
C15_ResetOnlyWhenFresh ==
    /\ []C15_ResetState
    /\ [][C15_ResumeStep]_vars

\* C15 witness: the arrays held an earlier scan's values (the new data file
\* was created from them), and the fresh scan has reset them.
C15_Witness ==
    /\ reset_die
    /\ scanPc = "while"
    /\ Attempted(":WFR:RESET")
    /\ h5voltages = PriorData(gridSubs)
    /\ self_data = FreshData(gridSubs)
    /\ self_times = FreshTimes(gridSubs)

\* ========================================= properties of the data file
\* Entry k of self.data / self.times was recorded by this scan.
ThisScan(k) == self_times[k] # NoTime /\ self_times[k] >= start_time
\* Entry k of the data file equals entry k of self.data / self.times.
Persisted(k) == h5voltages[k] = self_data[k] /\ h5times[k] = self_times[k]
\* The entry of the subsite in progress.
InProgress(k) == InGrid(x_i, y_i, index) /\ k = Key(x_i, y_i, index)

\* C16: when the engine is about to advance to the next subsite, every value
\* and timestamp this scan recorded in self.data / self.times is in the data
\* file at the same index; and when a scan has ended Aborted the data file is
\* closed and holds every such entry, except at most the entry of the
\* subsite that was in progress.
C16_AbortKeepsProgress ==
    /\ scanPc = "advance"
       => \A k \in GridKeys(gridSubs) : ThisScan(k) => Persisted(k)
    /\ (scanPc = "done" /\ scanResult.state = "Aborted")
       => /\ ~h5Open
          /\ \A k \in GridKeys(gridSubs) :
               (ThisScan(k) /\ ~InProgress(k)) => Persisted(k)

\* C16 witness: subsite 1 was recorded and written to the file, then a
\* KeyboardInterrupt arrived after subsite 2 was recorded and before it was
\* written; the scan has ended Aborted.
C16_Witness ==
    /\ scanPc = "done"
    /\ scanResult.state = "Aborted"
    /\ cancel.raised
    /\ cancel.at = "persist"
    /\ nextRet = <<2>>
    /\ ThisScan(Key(x_i, y_i, 1))
    /\ Persisted(Key(x_i, y_i, 1))
    /\ ~Persisted(Key(x_i, y_i, 2))

\* ======================================= properties of the height correction
XY(p) == <<p[1], p[2]>>
Reflect(p, q) == <<2 * p[1] - q[1], 2 * p[2] - q[2]>>
TestPoints == <<<<0, 0, 0>>, <<0, 1, 1>>, <<1, 0, 0>>>>
\* What the last change_z_down call did: it pushed its prediction, or it
\* left the commanded z-down and the stage alone.
Pushed ==
    /\ z_down = lastStep.pred
    /\ p200_z_down = lastStep.pred
    /\ hwWrites = lastStep.writes + 1
Kept ==
    /\ z_down = lastStep.prev
    /\ hwWrites = lastStep.writes

\* C17: a change_z_down call on a fitted plane with a z-down already
\* commanded pushes the prediction exactly when it is at least DELTA = 5 away
\* from the last commanded z-down, and otherwise leaves the commanded z-down
\* and the stage as they were; on the plane through (0,0,0), (0,1,1),
\* (1,0,0) with z-down 0 commanded, calls at (0,0), (0,1), (10,0) leave it at
\* 0 and a call at (0,10) sets it to 10.
C17_Hysteresis ==
    /\ (lastStep.kind = "fitted" /\ lastStep.prev # None)
       => /\ FarApart(lastStep.prev, lastStep.pred, 5) => Pushed
          /\ ~FarApart(lastStep.prev, lastStep.pred, 5)
             => (Kept /\ p200_z_down = lastStep.prev)
    /\ (/\ lastStep.kind = "fitted"
        /\ lastStep.points = TestPoints
        /\ lastStep.prev = Whole(0))
       => /\ lastStep.pos \in {<<0, 0>>, <<0, 1>>, <<10, 0>>}
             => (z_down = Whole(0) /\ Kept)
          /\ lastStep.pos = <<0, 10>> => (z_down = Whole(10) /\ Pushed)

\* C17 witness: on the plane of the test, with z-down 0 commanded, a call at
\* (0, 10) has set the z-down to 10.
C17_Witness ==
    /\ lastStep.kind = "fitted"
    /\ lastStep.points = TestPoints
    /\ lastStep.prev = Whole(0)
    /\ lastStep.pos = <<0, 10>>
    /\ z_down = Whole(10)
    /\ p200_z_down = Whole(10)

\* C18: a plane fitted to three points that determine one predicts each
\* point's z at the point's (x, y), and at the position 2 p - q of two of
\* the points p, q it predicts 2 z_p - z_q; fitted to (0,0,0), (0,1,1),
\* (1,0,0) it predicts 1 at (0,1), 0 at (2,0), 2 at (0,2), 10 at (0,10).
C18_FitInterpolates ==
    (adjust # NoPlane /\ Len(adjust.points) = 3)
    => /\ \A i \in 1..3 :
            Predict(adjust, XY(adjust.points[i])) = Whole(adjust.points[i][3])
       /\ \A i \in 1..3, j \in 1..3 :
            Predict(adjust, Reflect(adjust.points[i], adjust.points[j]))
            = Whole(2 * adjust.points[i][3] - adjust.points[j][3])
       /\ adjust.points = TestPoints
          => /\ Predict(adjust, <<0, 1>>) = Whole(1)
             /\ Predict(adjust, <<2, 0>>) = Whole(0)
             /\ Predict(adjust, <<0, 2>>) = Whole(2)
             /\ Predict(adjust, <<0, 10>>) = Whole(10)

\* C18 witness: the plane was fitted to the points of the test and a
\* change_z_down call at (0, 10) got the prediction 10.
C18_Witness ==
    /\ adjust # NoPlane
    /\ adjust.points = TestPoints
    /\ lastStep.kind = "fitted"
    /\ lastStep.points = TestPoints
    /\ lastStep.pos = <<0, 10>>
    /\ lastStep.pred = Whole(10)

\* C19: a change_z_down call before any fit leaves the commanded z-down
\* unset and the stage untouched; a call on a fitted plane with no z-down
\* commanded yet (the first call after the first successful fit) sets the
\* commanded z-down, and the stage, to the prediction; so on a fitted plane
\* the z-down is unset only as long as no call was made.
C19_FirstStepSets ==
    /\ lastStep.kind = "unfitted"
       => /\ z_down = None
          /\ hwWrites = 0
          /\ p200_z_down = Whole(0)
    /\ (lastStep.kind = "fitted" /\ lastStep.prev = None) => Pushed
    /\ lastStep.kind = "fitted" => z_down # None

\* C19 witness: a call before the fit left the z-down unset; then the plane
\* of the test was fitted and the first call, at (0, 1), set it to 1.
C19_Witness ==
    /\ zsteps = 2
    /\ adjust.points = TestPoints
    /\ lastStep.kind = "fitted"
    /\ lastStep.prev = None
    /\ lastStep.pos = <<0, 1>>
    /\ z_down = Whole(1)
    /\ hwWrites = 1

\* ================================ properties of use_pattern_recognition
\* C20: a use_pattern_recognition(b) call whose two commands went through
\* returns what the controller reports after the set, which is b; and a
\* use_pattern_recognition() call that directly follows a
\* use_pattern_recognition(b) call that returned, its query going through,
\* returns b.
C20_PatRecRoundTrip ==
    \A i \in 1..Len(patLog) :
        /\ (patLog[i].set = "ok" /\ patLog[i].query = "ok")
           => /\ patLog[i].kind = "return"
              /\ patLog[i].value = patLog[i].after
              /\ patLog[i].arg.given => patLog[i].value = patLog[i].arg.val
        /\ (/\ i > 1
            /\ patLog[i-1].arg.given
            /\ patLog[i-1].kind = "return"
            /\ ~patLog[i].arg.given
            /\ patLog[i].query = "ok")
           => /\ patLog[i].kind = "return"
              /\ patLog[i].value = patLog[i-1].arg.val

\* C20 witness: with pattern recognition off, use_pattern_recognition(True)
\* returned True and the query that followed returned True.
C20_Witness ==
    /\ Len(patLog) = 2
    /\ patLog[1].arg = Arg(TRUE)
    /\ patLog[1].before = FALSE
    /\ patLog[1].kind = "return"
    /\ patLog[1].value = TRUE
    /\ patLog[2].arg = ArgNone
    /\ patLog[2].kind = "return"
    /\ patLog[2].value = TRUE

\* ---------------------------------------------------------------- C21
NavEntry(k) == navLog[k]
Resets(e) == Len(e.cmds) = 2
\* Move first, then the reset of the local reference, and the reset only
\* after a move that succeeded.
MoveThenReset(e) ==
    /\ e.cmds[1].cmd = MoveCmd(e.op)
    /\ Resets(e) =>
          e.cmds[1].outcome = "ok" \/
          (e.op = "goto_die" /\ e.cmds[1].outcome = "empty")
    /\ e.cmds[1].outcome = "ok" => Resets(e)
    /\ Resets(e) => e.cmds[2] = Cmd(":PRB:REFXY", <<0, 0>>, e.cmds[2].outcome)
NavSucceeded(e) == Resets(e) /\ e.cmds[2].outcome = "ok"
ReturnsReported(e) ==
    NavSucceeded(e) => e.kind = "return" /\ e.value = DevDieAt(e.after)

\* C21 as stated: goto_first_die, goto_next_die and goto_same_die issue the
\* move and then the reset of the local reference, the reset only after a
\* successful move, and return the die the move reported; goto_die(x, y)
\* returns the resulting die as well.
C21_GotoReturnsDie ==
    \A k \in 1..Len(navLog) :
        MoveThenReset(NavEntry(k)) /\ ReturnsReported(NavEntry(k))

\* C21, amended: as above for goto_first_die, goto_next_die and
\* goto_same_die; goto_die(x, y) issues the same two commands in the same
\* order and returns nothing (None), although the controller then stands at
\* the die (x, y).
C21_GotoDieReturnsNone ==
    \A k \in 1..Len(navLog) :
        /\ MoveThenReset(NavEntry(k))
        /\ NavEntry(k).op # "goto_die" => ReturnsReported(NavEntry(k))
        /\ NavEntry(k).op = "goto_die" /\ NavSucceeded(NavEntry(k)) =>
              /\ NavEntry(k).kind = "return"
              /\ NavEntry(k).value = None
              /\ DevDieAt(NavEntry(k).after) = NavEntry(k).arg
        /\ ~NavSucceeded(NavEntry(k)) => NavEntry(k).kind = "raise"

C21_Witness ==
    /\ Len(navLog) = 2
    /\ NavEntry(1).op = "goto_die" /\ NavSucceeded(NavEntry(1))
    /\ NavEntry(1).before # NavEntry(1).after
    /\ NavEntry(2).op = "goto_next_die" /\ NavSucceeded(NavEntry(2))
    /\ NavEntry(2).value = DieSeq[2]

\* ---------------------------------------------------------------- C22
\* A command is in flight from its transmission until send_command has
\* returned or raised.
InFlight == pc \in {"loop", "except"}
Transmits == calls' # calls
C22_OnePerCall == Len(sent) <= 1 /\ Len(delivered) <= 1
C22_NoneWhileInFlight == Transmits => ~InFlight /\ InFlight' /\ Len(sent') = 1

C23_SentinelReserved ==
    \A k \in GridKeys(gridSubs) :
        ThisScan(k) =>
            /\ self_data[k] # Untested
            /\ (Persisted(k) /\ ~InProgress(k)) => h5voltages[k] # Untested

\* ---------------------------------------------------------------- C24
Completed == pc \in {"returned", "raised"}
\* The frames that can still be split off data followed by what is unread.
RECURSIVE FramesOf(_)
FramesOf(d) == IF HasCR(d) THEN <<SplitHead(d)>> \o FramesOf(SplitRest(d))
               ELSE <<>>
TerminalDelivered ==
    \E i \in 1..Len(FramesOf(data \o wire)) : FramesOf(data \o wire)[i] = F064
EndOfStream == peerClosed /\ wire = <<>> /\ ~HasCR(data)

\* C24: a call that waits in its loop completes (returns or raises) once the
\* terminal frame b'#064' has been delivered or the stream is at its end
\* (the peer has closed and reads return no bytes).
C24_SendCompletes ==
    (pc = "loop" /\ (TerminalDelivered \/ EndOfStream)) ~> Completed

\* The half of C24 about a delivered terminal frame.
C24_TerminalCompletes == (pc = "loop" /\ TerminalDelivered) ~> Completed

\* ---------------------------------------------------------------- C25
\* A step of send_command that splits one frame off; the frame is response'
\* and the frame before it is response.
ParseStep == pc = "loop" /\ parsed' = Append(parsed, response')
AfterMarker == response = F192
Captured == retval' = Decode(response')
C25_PayloadStep ==
    (ParseStep /\ AfterMarker /\ CanDecode(response')) =>
        Captured /\ exc' = NoExc /\ pc' = "loop"

\* C25 as stated: the frame directly after a b'#192' frame is taken as the
\* return payload whatever its bytes: it is captured, raises nothing and
\* does not end the response, also when it is b'#064', b'#066' or b'#079'.
C25_AlwaysPayload == [][C25_PayloadStep]_vars

C25_StatusStep ==
    (ParseStep /\ AfterMarker) =>
        CASE response' = F066 ->
                 pc' = "except" /\ exc' = BadCommand(message) /\ retval' = retval
          [] response' = F079 ->
                 pc' = "except" /\ exc' = Aborted(message) /\ retval' = retval
          [] response' \notin {F066, F079} /\ ~CanDecode(response') ->
                 pc' = "except" /\ exc' = UnicodeDecodeError /\ retval' = retval
          [] response' = F064 ->
                 /\ Captured /\ pc' = "returned"
                 /\ result' = [kind |-> "return", value |-> Decode(F064),
                               exc |-> NoExc]
          [] OTHER -> Captured /\ exc' = NoExc /\ pc' = "loop"

\* C25, amended: the frame directly after a b'#192' frame is captured as the
\* return payload unless it is b'#066' or b'#079', which fail the command as
\* at any other position, or cannot be decoded, which fails it too; a frame
\* b'#064' in that position is captured as the payload and ends the response
\* as well, so the call returns '#064'.
C25_PayloadUnlessStatus == [][C25_StatusStep]_vars

C25_Witness ==
    /\ parsed = <<F192, F064>>
    /\ pc = "returned"
    /\ result.value = Decode(F064)

\* ---------------------------------------------------------------- C26
ControlFrames == {F064, F066, F079, F192}
C26_PlainStep ==
    (ParseStep /\ ~AfterMarker /\ response' \notin ControlFrames) =>
        /\ pc' = "loop"
        /\ exc' = NoExc
        /\ retval' = retval
        /\ result' = result
        /\ connects' = connects

\* C26: a frame that is none of b'#064', b'#066', b'#079', b'#192' and does
\* not directly follow a b'#192' frame raises nothing, does not end the
\* response and leaves the payload to return as it was.
C26_PlainFrameNoEffect == [][C26_PlainStep]_vars

\* Two plain frames, the second one not decodable, were parsed before the
\* terminal frame; the call returned no value.
C26_Witness ==
    /\ pc = "returned"
    /\ parsed = <<<<"VALUE">>, <<"xFF">>, F064>>
    /\ result = [kind |-> "return", value |-> None, exc |-> NoExc]

\* ---------------------------------------------------------------- C27
Returned == stack = <<>> /\ fret.kind = "return"
Sets == SelectSeq(cmdLog, LAMBDA c : c.cmd = ":PRB:DNM")
Queries == SelectSeq(cmdLog, LAMBDA c : c.cmd = ":PRB:DNM?")
Mine == Slot(cur.op)
Theirs == Slot(Other(cur.op))

\* C27: auto_raise(b) / auto_lower(b) that returned has sent the flag vector
\* once, as the last command, with both elements, its own set to b and the
\* other one as the controller reported it, and the controller holds that
\* vector; a call without an argument that returned has sent the query and
\* nothing else, has changed no flag and returns its own flag.
C27_SetKeepsOtherFlag ==
    /\ (Returned /\ cur.op \in Ops /\ cur.arg.given) =>
          /\ Len(Sets) = 1
          /\ cmdLog[Len(cmdLog)] = Sets[1]
          /\ Len(Sets[1].words) = 2
          /\ Sets[1].words[Mine] = PyStr(cur.arg.val)
          /\ Sets[1].words[Theirs] = PyStr(cur.start[Theirs])
          /\ devFlags[Mine] = cur.arg.val
          /\ devFlags[Theirs] = cur.start[Theirs]
          /\ fret.value = cur.arg.val
    /\ (Returned /\ cur.op \in Ops /\ ~cur.arg.given) =>
          /\ Len(cmdLog) = 1
          /\ cmdLog[1].cmd = ":PRB:DNM?"
          /\ devFlags = cur.start
          /\ fret.value = cur.start[Mine]

\* auto_raise(True) on (off, off) and then auto_lower(True) have returned.
C27_Witness ==
    /\ fcalls = 2
    /\ Returned
    /\ cur.op = "auto_lower"
    /\ cur.arg = Arg(TRUE)
    /\ cur.start = <<TRUE, FALSE>>
    /\ devFlags = <<TRUE, TRUE>>
    /\ Len(Queries) = 2

\* ---------------------------------------------------------------- C28
\* C28: auto_raise(False) called while the controller reports auto-lower on
\* never issues the flag-setting command, leaves both flags as they were,
\* and ends by raising: the ordering AssertionError when its queries went
\* through, the failure of a query otherwise.
C28_RaiseOffNeedsLowerOff ==
    (cur.op = "auto_raise" /\ cur.arg = Arg(FALSE) /\ cur.start[2])
    => /\ Len(Sets) = 0
       /\ devFlags = cur.start
       /\ fret.kind # "return"
       /\ stack = <<>>
          => /\ fret.kind = "raise"
             /\ AllOk <=> fret.exc = AssertionError(RaiseMsg)
             /\ ~AllOk <=> fret.exc = TransportError

\* auto_raise(False) on (on, on) has raised the ordering error after its
\* two queries.
C28_Witness ==
    /\ cur.op = "auto_raise"
    /\ cur.arg = Arg(FALSE)
    /\ cur.start = <<TRUE, TRUE>>
    /\ stack = <<>>
    /\ Len(Queries) = 2
    /\ Len(cmdLog) = 2
    /\ AllOk
    /\ fret.exc = AssertionError(RaiseMsg)

\* ---------------------------------------------------------------- C29
OrderingError(e) == e.kind = "AssertionError"
PastEntry == scanPc \in ({"get_h5"} \cup TryPcs) \/ visits # <<>>

\* C29: the entry of a scan enables auto-raise before auto-lower: from each
\* flag vector other than (off, on) neither call raises the ordering
\* AssertionError, auto_lower(True) is called with auto-raise on, and both
\* flags are on once the entry calls are over and whenever a die has been
\* probed.
C29_EntryEnablesBoth ==
    /\ ~OrderingError(fret.exc)
    /\ ~OrderingError(scanResult.exc)
    /\ scanPc = "auto_lower" => cur.op = "auto_lower" /\ cur.start[1]
    /\ PastEntry => devFlags = <<TRUE, TRUE>>

\* auto_lower(True) found auto-raise on and auto-lower off and set it, and a
\* die has been probed.
C29_Witness ==
    /\ visits # <<>>
    /\ cur.op = "auto_lower"
    /\ cur.start = <<TRUE, FALSE>>
    /\ Len(Sets) = 1
    /\ devFlags = <<TRUE, TRUE>>

\* ---------------------------------------------------------------- C30
\* Every byte the controller has written in reply to the command of the
\* call that has returned: the frames parsed, what was received and not
\* parsed, and what is unread in the socket.
RECURSIVE Join(_)
Join(fs) == IF fs = <<>> THEN <<>> ELSE Head(fs) \o <<CR>> \o Join(Tail(fs))
Reply == Join(parsed) \o data \o wire

\* Frame i of fs is a payload: it directly follows a b'#192' that is not a
\* payload itself.  A terminal frame is a b'#064' that is not a payload.
RECURSIVE PayloadAt(_, _)
PayloadAt(fs, i) == i > 1 /\ fs[i - 1] = F192 /\ ~PayloadAt(fs, i - 1)
TerminalAt(fs, i) == fs[i] = F064 /\ ~PayloadAt(fs, i)
\* The controller kept to the protocol: nothing after the terminal frame.
ReplyEndsAtTerminal ==
    \A i \in 1..Len(FramesOf(Reply)) :
        TerminalAt(FramesOf(Reply), i) =>
            i = Len(FramesOf(Reply)) /\ Join(FramesOf(Reply)) = Reply

NothingToRead == data' = <<>> /\ wire' = <<>>
C30_NextSendStep ==
    /\ (Transmits /\ pc = "returned" /\ ReplyEndsAtTerminal) => NothingToRead
    /\ (Transmits /\ pc = "raised" /\ sock = "connected") =>
           NothingToRead /\ session' > sent[1][1]

\* C30: when the next command is sent nothing of the reply to the earlier
\* one is left to parse: after a call that raised and reconnected the
\* session is a new one with nothing unread, and after a call that returned
\* the local buffer is empty and the socket holds no unread byte of the
\* earlier reply.
C30_NoStaleFrames == [][C30_NextSendStep]_vars

\* What does hold after a call that returned: the next call starts with an
\* empty local buffer, and with an empty socket when the call had parsed the
\* controller's first b'#064' frame and the controller wrote nothing after it.
C30_CleanAfterFirst064 ==
    [][(Transmits /\ pc = "returned") =>
          /\ data' = <<>>
          /\ (\A i \in 1..Len(FramesOf(Reply)) :
                 FramesOf(Reply)[i] = F064 =>
                     i = Len(FramesOf(Reply)) /\ Join(FramesOf(Reply)) = Reply)
             => wire' = <<>>]_vars

\* ---------------------------------------------------------------- C31
\* The grid has the shape get_data_shape names: the third dimension is the
\* number of subsites.
ShapeIsSubsites == gridSubs = nsub
\* (x, y, i) is an index of the grid, none that numpy wraps around.
Inside(x, y, i) ==
    /\ 0 <= x /\ x < WaferShape[1]
    /\ 0 <= y /\ y < WaferShape[2]
    /\ 0 <= i /\ i < gridSubs

\* C31: in a grid of shape (columns, rows, number of subsites) every subsite
\* index at which a measurement is about to be written is inside the grid,
\* and a value that was written has its timestamp at the same index.
C31_WritesInsideGrid ==
    ShapeIsSubsites =>
        /\ scanPc = "measure" => Inside(x_i, y_i, index)
        /\ scanPc = "persist" =>
              /\ Inside(x_i, y_i, index)
              /\ self_times[Key(x_i, y_i, index)] = clock - 1

\* What holds whatever the shape: the indices visited are 1, 2, ... up to
\* the number of subsites, and the value and its timestamp go to the same
\* index when the write is inside the grid.
C31_IndicesFromOne ==
    /\ scanPc \in {"measure", "persist"} => 1 <= index /\ index <= nsub
    /\ scanPc = "persist" =>
          /\ Inside(x_i, y_i, index)
          /\ self_times[Key(x_i, y_i, index)] = clock - 1

====
